---------------------------- MODULE Spec2Model ----------------------------
(***************************************************************************)
(* A model of the metadata normalisation code of ftva_etl                  *)
(* (src/src/ftva_etl/metadata).                                            *)
(*                                                                         *)
(* Text is modelled as a sequence of one-character strings, so that the    *)
(* stripping, bracket handling and length tests of the code are computed   *)
(* character by character.  A MARC record is a sequence of fields; a data  *)
(* field carries two indicators and a sequence of (code, value) subfields, *)
(* a control field carries data.  A Python dict is a function whose        *)
(* DOMAIN is the set of its keys.                                          *)
(***************************************************************************)
EXTENDS Integers, Sequences, FiniteSets, TLC

VARIABLES
    op,                   \* the function under call
    bib_record,           \* the pymarc Record passed to it
    is_series,            \* get_title_info's is_series argument
    date_string,          \* parse_date's argument
    filemaker_record,     \* get_mams_metadata's Filemaker record
    digital_data_record,  \* get_mams_metadata's digital data record
    match_asset_uuid,     \* get_mams_metadata's optional match_asset_uuid
    locals,               \* the local variables of the call
    items,                \* strip_whitespace_and_punctuation's list of strings
    records,              \* filter_by_inventory_number_and_library's list of Records
    inventory_number,     \* the inventory number to match
    call_number,          \* _is_inventory_number_match's call number
    client,               \* the DigitalDataClient: _user, _password, _url
    record_id,            \* get_record_by_id's argument
    invocations,          \* the calls of get_mams_metadata running side by side
    pc,                   \* where the call stands: "ready", ..., "done"
    result                \* the outcome of the call: a return value or an exception

\* the arguments of the call
args == <<op, bib_record, is_series, date_string,
          filemaker_record, digital_data_record, match_asset_uuid,
          items, records, inventory_number, call_number, client, record_id>>

vars == <<args, invocations, locals, pc, result>>

\* the sequences over S of length at most n
SeqsUpTo(S, n) == UNION {[1..k -> S] : k \in 0..n}

---------------------------------------------------------------------------
(* Python built-ins on str, as the code uses them.                         *)

\* "".join of a list of strings
RECURSIVE Concat(_)
Concat(ss) == IF ss = <<>> THEN <<>> ELSE Head(ss) \o Concat(Tail(ss))

\* c in s
Contains(s, c) == \E i \in 1..Len(s) : s[i] = c

\* s.replace(c, "")
RECURSIVE RemoveChar(_, _)
RemoveChar(s, c) ==
    IF s = <<>> THEN <<>>
    ELSE IF Head(s) = c THEN RemoveChar(Tail(s), c)
    ELSE <<Head(s)>> \o RemoveChar(Tail(s), c)

\* s.rstrip(chars)
RECURSIVE RStrip(_, _)
RStrip(s, chars) ==
    IF s # <<>> /\ s[Len(s)] \in chars
    THEN RStrip(SubSeq(s, 1, Len(s) - 1), chars)
    ELSE s

\* s.lstrip(chars)
RECURSIVE LStrip(_, _)
LStrip(s, chars) ==
    IF s # <<>> /\ Head(s) \in chars THEN LStrip(Tail(s), chars) ELSE s

\* s.strip(chars)
StripChars(s, chars) == LStrip(RStrip(s, chars), chars)

\* the whitespace s.strip() removes
Whitespace == {" ", "\t", "\n", "\r"}

\* s.strip()
Strip(s) == StripChars(s, Whitespace)

Digits == {"0", "1", "2", "3", "4", "5", "6", "7", "8", "9"}

\* s.isdigit()
IsDigit(s) == s # <<>> /\ \A i \in 1..Len(s) : s[i] \in Digits

\* sep.join(parts)
RECURSIVE Join(_, _)
Join(sep, parts) ==
    IF parts = <<>> THEN <<>>
    ELSE IF Len(parts) = 1 THEN Head(parts)
    ELSE Head(parts) \o sep \o Join(sep, Tail(parts))

\* string.punctuation (the grave accent is written "grave")
StringPunctuation ==
    {"!", "\"", "#", "$", "%", "&", "'", "(", ")", "*", "+", ",", "-", ".",
     "/", ":", ";", "<", "=", ">", "?", "@", "[", "\\", "]", "^", "_", "grave",
     "{", "|", "}", "~"}

---------------------------------------------------------------------------
(* pymarc accessors, as the code uses them.                                *)

\* Record.get_fields(tag): the fields with this tag, in record order
RECURSIVE get_fields(_, _)
get_fields(rec, tag) ==
    IF rec = <<>> THEN <<>>
    ELSE IF Head(rec).tag = tag
         THEN <<Head(rec)>> \o get_fields(Tail(rec), tag)
         ELSE get_fields(Tail(rec), tag)

\* Record.get(tag): the first field with this tag, or None
NoField == [tag |-> "None"]

RecordGet(rec, tag) ==
    IF get_fields(rec, tag) = <<>> THEN NoField ELSE Head(get_fields(rec, tag))

\* Field.get_subfields(code): the values of the subfields with this code, in order
RECURSIVE SubfieldValues(_, _)
SubfieldValues(subfields, code) ==
    IF subfields = <<>> THEN <<>>
    ELSE IF Head(subfields).code = code
         THEN <<Head(subfields).value>> \o SubfieldValues(Tail(subfields), code)
         ELSE SubfieldValues(Tail(subfields), code)

get_subfields(field, code) == SubfieldValues(field.subfields, code)

\* constructors of the model's records
DataField(tag, ind1, ind2, subfields) ==
    [tag |-> tag, indicator1 |-> ind1, indicator2 |-> ind2, subfields |-> subfields]

ControlField(tag, data) == [tag |-> tag, data |-> data]

Subfield(code, value) == [code |-> code, value |-> value]

\* outcomes of a call
Return(v) == [kind |-> "return", value |-> v]

Raise(type, message, id) ==
    [kind |-> "raise", type |-> type, message |-> message, record_id |-> id]

NoResult == [kind |-> "none"]

\* an optional argument: None, or a value
None == [given |-> FALSE, value |-> <<>>]

Given(value) == [given |-> TRUE, value |-> value]

\* the arguments and locals of get_mams_metadata in a call of another function
NoMamsArguments ==
    /\ filemaker_record = <<>>
    /\ digital_data_record = <<>>
    /\ match_asset_uuid = None
    /\ locals = <<>>

\* the arguments of the functions of utils.py, unused by a call of another
NoUtilsArguments ==
    /\ items = <<>>
    /\ records = <<>>
    /\ inventory_number = <<>>
    /\ call_number = <<>>

\* no DigitalDataClient takes part in a call of a function of the metadata package
NoClientCall ==
    /\ client = <<>>
    /\ record_id = 0

\* one call at a time: no calls side by side
OneCall == invocations = <<>>

\* a Python dict: d[k] = v, and the empty dict
EmptyDict == <<>>

Put(d, k, v) == [x \in (DOMAIN d) \cup {k} |-> IF x = k THEN v ELSE d[x]]

\* {**d, **e} and d.update(e): the keys of e overwrite those of d
Update(d, e) == [x \in (DOMAIN d) \cup (DOMAIN e) |-> IF x \in DOMAIN e THEN e[x] ELSE d[x]]

---------------------------------------------------------------------------
(* metadata/utils.py: text normalisation                                   *)

\* item.rstrip(string.punctuation + " ").strip("[] "), for one item
\* only the sentence punctuation .,;:!? and spaces are taken off the end
StripItem_SentencePunctuation(item) ==
    StripChars(RStrip(item, {".", ",", ";", ":", "!", "?", " "}), {"[", "]", " "})

StripItem(item) ==
    StripChars(RStrip(item, StringPunctuation \cup {" "}), {"[", "]", " "})

\* the trailing punctuation is taken off and the brackets are left
strip_whitespace_and_punctuation_rstrip_only(strings) ==
    [i \in 1..Len(strings) |-> RStrip(strings[i], StringPunctuation \cup {" "})]

strip_whitespace_and_punctuation(strings) ==
    [i \in 1..Len(strings) |-> StripItem(strings[i])]

---------------------------------------------------------------------------
(* metadata/marc.py: titles                                                *)

get_record_id(marc_record) ==
    LET field_001 == RecordGet(marc_record, "001")
    IN  IF field_001 # NoField THEN field_001.data ELSE <<>>

\* the first subfield taken as it is, the normalisation forgotten
_get_first_unstripped(subfields) ==
    IF subfields # <<>> THEN subfields[1] ELSE <<>>

_get_first_stripped(subfields) ==
    LET stripped == strip_whitespace_and_punctuation(subfields)
    IN  IF stripped # <<>> THEN stripped[1] ELSE <<>>

\* ". " as text
DotSpace == <<".", " ">>

\* the cases of get_title_info: each takes the dict built so far and adds
\* its keys when its condition holds
TitleCase5(titles, main_title, name_of_part, number_of_part) ==
    IF main_title # <<>> /\ name_of_part = <<>> /\ number_of_part = <<>>
    THEN Put(titles, "title", main_title)
    ELSE titles

TitleCase4(titles, main_title, name_of_part, number_of_part, series) ==
    IF ~series /\ main_title # <<>> /\ number_of_part # <<>> /\ name_of_part = <<>>
    THEN Put(titles, "title", Join(DotSpace, <<main_title, number_of_part>>))
    ELSE titles

\* CASE 3 with the test of is_series lost
TitleCase3_AnySeries(titles, main_title, name_of_part, number_of_part, series) ==
    IF main_title # <<>> /\ number_of_part # <<>> /\ name_of_part = <<>>
    THEN Put(Put(Put(titles, "title", Join(DotSpace, <<main_title, number_of_part>>)),
                 "series_title", main_title),
             "episode_title", number_of_part)
    ELSE titles

TitleCase3(titles, main_title, name_of_part, number_of_part, series) ==
    IF series /\ main_title # <<>> /\ number_of_part # <<>> /\ name_of_part = <<>>
    THEN Put(Put(Put(titles, "title", Join(DotSpace, <<main_title, number_of_part>>)),
                 "series_title", main_title),
             "episode_title", number_of_part)
    ELSE titles

TitleCase2(titles, main_title, name_of_part, number_of_part) ==
    IF main_title # <<>> /\ name_of_part # <<>> /\ number_of_part = <<>>
    THEN Put(Put(Put(titles, "title", Join(DotSpace, <<main_title, name_of_part>>)),
                 "series_title", main_title),
             "episode_title", name_of_part)
    ELSE titles

TitleCase1(titles, main_title, name_of_part, number_of_part) ==
    IF main_title # <<>> /\ name_of_part # <<>> /\ number_of_part # <<>>
    THEN Put(Put(Put(titles, "title",
                     Join(DotSpace, <<main_title, name_of_part, number_of_part>>)),
                 "series_title", main_title),
             "episode_title", Join(DotSpace, <<name_of_part, number_of_part>>))
    ELSE titles

\* the cases in the order of the code, from the empty dict
TitleCases(main_title, name_of_part, number_of_part, series) ==
    LET t5 == TitleCase5(EmptyDict, main_title, name_of_part, number_of_part)
        t4 == TitleCase4(t5, main_title, name_of_part, number_of_part, series)
        t3 == TitleCase3(t4, main_title, name_of_part, number_of_part, series)
        t2 == TitleCase2(t3, main_title, name_of_part, number_of_part)
        t1 == TitleCase1(t2, main_title, name_of_part, number_of_part)
    IN  t1

\* the texts of the two ValueErrors; the record id follows in the message
No245Field == "No 245 field found in bib record"

No245a == "No 245 $a found in bib record"

get_title_info(rec, series) ==
    LET bib_id == get_record_id(rec)
        title_statement == RecordGet(rec, "245")
    IN  IF title_statement = NoField
        THEN Raise("ValueError", No245Field, bib_id)
        ELSE LET main_title == _get_first_stripped(get_subfields(title_statement, "a"))
                 remainder_of_title == _get_first_stripped(get_subfields(title_statement, "b"))
                 name_of_part == _get_first_stripped(get_subfields(title_statement, "p"))
                 number_of_part == _get_first_stripped(get_subfields(title_statement, "n"))
             IN  IF main_title = <<>>
                 THEN Raise("ValueError", No245a, bib_id)
                 ELSE LET full_title ==
                              IF remainder_of_title # <<>>
                              THEN Join(DotSpace, <<main_title, remainder_of_title>>)
                              ELSE main_title
                      IN  Return(TitleCases(full_title, name_of_part, number_of_part, series))

---------------------------------------------------------------------------
(* dateutil.parser.parse, the library call of parse_date.  The library is  *)
(* not part of the repository: the model states what its documentation     *)
(* and its token rules settle, and leaves open what depends on the digits  *)
(* and on the current day.                                                 *)

\* single characters dateutil skips between the parts of a date
JumpChars == {" ", ".", ",", ";", "-", "/", "'"}

\* the text with the skipped characters at its ends removed
DateCore(text) == LStrip(RStrip(text, JumpChars), Whitespace)

April5 == <<"A", "p", "r", "i", "l", " ", "5", ",", " ", "2", "0", "2", "3">>

Iso20230405 == <<"2", "0", "2", "3", "-", "0", "4", "-", "0", "5">>

\* a date the library reads out of digits and separators alone; which one
\* depends on the digits and on the current day
SomeDate == <<"Y", "Y", "Y", "Y", "-", "M", "M", "-", "D", "D">>

ParsedAs(date) == [kind |-> "ok", value |-> date]

ParserError == Raise("ParserError", "Unknown string format", <<>>)

OverflowError == Raise("OverflowError", "signed integer is greater than maximum", <<>>)

\* a number too long to be a date part and too large for a C int as a year
IsOverflowingNumber(core) == IsDigit(core) /\ Len(core) >= 11 /\ Len(core) \notin {12, 14}

\* the outcomes dateutil.parser.parse(text) may have
DateutilOutcomes(text) ==
    LET core == DateCore(text)
    IN  IF core = <<>> THEN {ParserError}
        ELSE IF core \in {April5, Iso20230405} THEN {ParsedAs(Iso20230405)}
        ELSE IF IsOverflowingNumber(core) THEN {OverflowError}
        ELSE IF \E i \in 1..Len(core) : core[i] \notin Digits \cup JumpChars \cup {":"}
             THEN {ParserError}
        ELSE {ParserError, ParsedAs(SomeDate)}

---------------------------------------------------------------------------
(* metadata/utils.py: parse_date                                           *)

in_brackets(raw) == Contains(raw, "[") /\ Contains(raw, "]")

Unbracketed(raw) ==
    IF in_brackets(raw)
    THEN RemoveChar(RemoveChar(raw, "["), "]")
    ELSE raw

TrailingPunctuation == {".", ",", ";", ":", "!", "?"}

\* the argument once the brackets, trailing punctuation and whitespace are off:
\* the text tested for a year and passed to the parser
Stripped(raw) == Strip(RStrip(Unbracketed(raw), TrailingPunctuation))

\* the test without the hyphen alternative
IsYearForm_DigitsOnly(text) == Len(text) = 4 /\ IsDigit(text)

IsYearForm(text) == Len(text) = 4 /\ (IsDigit(text) \/ Contains(text, "-"))

\* the brackets are never put back
Rewrap_Never(raw, formatted_date) == formatted_date

Rewrap(raw, formatted_date) ==
    IF in_brackets(raw) THEN <<"[">> \o formatted_date \o <<"]">> ELSE formatted_date

\* the except clause of parse_date: the exceptions it catches
CaughtByParseDate == {"ValueError", "ParserError"}

\* parse_date, given the outcome of the library call when it comes to it
parse_date(raw, parsed) ==
    LET text == Stripped(raw)
    IN  IF IsYearForm(text) THEN Return(Rewrap(raw, text))
        ELSE IF parsed.kind = "ok" THEN Return(Rewrap(raw, parsed.value))
        ELSE IF parsed.type \in CaughtByParseDate THEN Return(Rewrap(raw, text))
        ELSE parsed

---------------------------------------------------------------------------
(* metadata/marc.py: dates                                                 *)

\* a 260 whose first $c is empty or blank is passed over
RECURSIVE First260WithDate_NonEmpty(_)
First260WithDate_NonEmpty(fields_260) ==
    IF fields_260 = <<>> THEN NoField
    ELSE IF /\ Head(fields_260).indicator1 = " "
            /\ Head(fields_260).indicator2 = " "
            /\ get_subfields(Head(fields_260), "c") # <<>>
            /\ Strip(get_subfields(Head(fields_260), "c")[1]) # <<>>
         THEN Head(fields_260)
         ELSE First260WithDate_NonEmpty(Tail(fields_260))

\* the first 260 with both indicators blank and a $c, as the loop finds it
RECURSIVE First260WithDate(_)
First260WithDate(fields_260) ==
    IF fields_260 = <<>> THEN NoField
    ELSE IF /\ Head(fields_260).indicator1 = " "
            /\ Head(fields_260).indicator2 = " "
            /\ get_subfields(Head(fields_260), "c") # <<>>
         THEN Head(fields_260)
         ELSE First260WithDate(Tail(fields_260))

\* the priority list with 1 before 2
indicator_priority_1_first == <<"1", "2", "4", "0", "3">>

indicator_priority == <<"2", "1", "4", "0", "3">>

qualifier_map ==
    [x \in {"2", "1", "4", "0", "3"} |->
        CASE x = "2" -> "distribution_date"
          [] x = "1" -> "release_broadcast_date"
          [] x = "4" -> "copyright_notice_date"
          [] x = "0" -> "production_date"
          [] x = "3" -> "manufacture_date"]

\* the inner loop: the first 264 with blank first indicator, this second
\* indicator and a $c
RECURSIVE First264WithDate(_, _)
First264WithDate(fields_264, indicator) ==
    IF fields_264 = <<>> THEN NoField
    ELSE IF /\ Head(fields_264).indicator1 = " "
            /\ Head(fields_264).indicator2 = indicator
            /\ get_subfields(Head(fields_264), "c") # <<>>
         THEN Head(fields_264)
         ELSE First264WithDate(Tail(fields_264), indicator)

NoDate == [date |-> <<>>, qualifier |-> ""]

\* the outer loop over the indicators left to try
RECURSIVE DateFrom264(_, _)
DateFrom264(fields_264, indicators) ==
    IF indicators = <<>> THEN NoDate
    ELSE LET field == First264WithDate(fields_264, Head(indicators))
         IN  IF field # NoField
             THEN [date |-> Strip(get_subfields(field, "c")[1]),
                   qualifier |-> qualifier_map[Head(indicators)]]
             ELSE DateFrom264(fields_264, Tail(indicators))

_get_date_from_bib(rec) ==
    LET field_260 == First260WithDate(get_fields(rec, "260"))
        fields_264 == get_fields(rec, "264")
    IN  IF field_260 # NoField
        THEN [date |-> Strip(get_subfields(field_260, "c")[1]),
              qualifier |-> "release_broadcast_date"]
        ELSE IF ~\E i \in 1..Len(fields_264) : fields_264[i].indicator1 = " "
             THEN NoDate
             ELSE DateFrom264(fields_264, indicator_priority)

\* an empty qualifier falls back to release_broadcast_date
QualifierOrDefault(qualifier) ==
    IF qualifier = "" THEN "release_broadcast_date" ELSE qualifier

\* date_dict of get_date_info, after the fallback of its qualifier
DateDict(rec) ==
    [_get_date_from_bib(rec) EXCEPT !.qualifier = QualifierOrDefault(@)]

\* get_date_info, given the outcome of the library call of parse_date
get_date_info(rec, parsed) ==
    LET date_dict == DateDict(rec)
        formatted == parse_date(date_dict.date, parsed)
    IN  IF formatted.kind = "return"
        THEN Return(Put(EmptyDict, date_dict.qualifier, formatted.value))
        ELSE formatted

---------------------------------------------------------------------------
(* More Python built-ins on str.                                           *)

UpperCase == <<"A", "B", "C", "D", "E", "F", "G", "H", "I", "J", "K", "L", "M", "N", "O", "P", "Q", "R", "S", "T", "U", "V", "W", "X", "Y", "Z">>

LowerCase == <<"a", "b", "c", "d", "e", "f", "g", "h", "i", "j", "k", "l", "m", "n", "o", "p", "q", "r", "s", "t", "u", "v", "w", "x", "y", "z">>

LowerChar(c) ==
    IF \E i \in 1..Len(UpperCase) : UpperCase[i] = c
    THEN LowerCase[CHOOSE i \in 1..Len(UpperCase) : UpperCase[i] = c]
    ELSE c

\* s.lower()
Lower(s) == [i \in 1..Len(s) |-> LowerChar(s[i])]

\* s.split(sep) for a one-character sep
RECURSIVE Split(_, _)
Split(s, sep) ==
    IF ~Contains(s, sep) THEN <<s>>
    ELSE LET i == CHOOSE k \in 1..Len(s) : s[k] = sep /\ \A j \in 1..(k - 1) : s[j] # sep
         IN  <<SubSeq(s, 1, i - 1)>> \o Split(SubSeq(s, i + 1, Len(s)), sep)

\* the places (counted from 0) where sub occurs in s
Occurrences(s, sub) ==
    {i \in 0..(Len(s) - Len(sub)) : SubSeq(s, i + 1, i + Len(sub)) = sub}

\* sub in s
HasSubstring(s, sub) == Occurrences(s, sub) # {}

\* s.find(sub)
Find(s, sub) ==
    IF Occurrences(s, sub) = {} THEN -1
    ELSE CHOOSE i \in Occurrences(s, sub) : \A j \in Occurrences(s, sub) : i <= j

\* d.get(key, default)
DictGet(d, key, default) == IF key \in DOMAIN d THEN d[key] ELSE default

---------------------------------------------------------------------------
(* metadata/filemaker.py and cleanup_production_type of metadata/utils.py  *)

\* fm_record.<name>: the value of the field, or AttributeError when the
\* record has no field of this name
Attribute(fm_record, name) ==
    IF name \in DOMAIN fm_record
    THEN Return(fm_record[name])
    ELSE Raise("AttributeError", name, <<>>)

\* the entries keep the whitespace around them
cleanup_production_type_untrimmed(production_type) ==
    Split(Lower(production_type), "\r")

cleanup_production_type(production_type) ==
    LET entries == Split(Lower(production_type), "\r")
    IN  [i \in 1..Len(entries) |-> Strip(entries[i])]

series_keywords ==
    <<<<"t", "e", "l", "e", "v", "i", "s", "i", "o", "n", " ", "s", "e", "r", "i", "e", "s">>,
      <<"m", "i", "n", "i", "-", "s", "e", "r", "i", "e", "s">>,
      <<"s", "e", "r", "i", "a", "l", "s">>,
      <<"n", "e", "w", "s">>>>

\* keyword in production_type, as if production_type were one string
InList_Substring(list, item) == \E i \in 1..Len(list) : HasSubstring(list[i], item)

\* keyword in production_type, for the list production_type
InList(list, item) == \E i \in 1..Len(list) : list[i] = item

is_series_production_type(fm_record) ==
    LET attribute == Attribute(fm_record, "production_type")
    IN  IF attribute.kind = "raise" THEN attribute
        ELSE LET production_type == cleanup_production_type(attribute.value)
             IN  Return(\E k \in 1..Len(series_keywords) :
                            InList(production_type, series_keywords[k]))

get_inventory_id(fm_record) == Attribute(fm_record, "inventory_id")

get_inventory_number(fm_record) == Attribute(fm_record, "inventory_no")

---------------------------------------------------------------------------
(* metadata/digital_data.py                                                *)

get_file_name(dd_record) == DictGet(dd_record, "file_name", <<>>)

get_folder_name(dd_record) == DictGet(dd_record, "file_folder_name", <<>>)

get_sub_folder_name(dd_record) == DictGet(dd_record, "sub_folder_name", <<>>)

get_uuid(dd_record) == DictGet(dd_record, "uuid", <<>>)

get_asset_type(dd_record) == DictGet(dd_record, "asset_type", <<>>)

get_media_type(dd_record) == DictGet(dd_record, "media_type", <<>>)

get_audio_class(dd_record) == DictGet(dd_record, "audio_class", <<>>)

get_dcp_info(dd_record) ==
    [file_name |-> <<>>,
     folder_name |-> get_folder_name(dd_record),
     sub_folder_name |-> get_sub_folder_name(dd_record)]

\* the sub-folder is carried as for a DCP
get_dpx_info_with_sub_folder(dd_record) ==
    [file_name |-> <<>>,
     folder_name |-> get_folder_name(dd_record),
     sub_folder_name |-> get_sub_folder_name(dd_record)]

get_dpx_info(dd_record) ==
    [file_name |-> <<>>, folder_name |-> get_folder_name(dd_record)]

---------------------------------------------------------------------------
(* metadata/marc.py: languages                                             *)

\* entries of data/language_map.json
language_map ==
    [code \in {<<"f", "r", "e">>, <<"e", "n", "g">>} |->
        IF code = <<"f", "r", "e">> THEN <<"F", "r", "e", "n", "c", "h">> ELSE <<"E", "n", "g", "l", "i", "s", "h">>]

\* the code is read from any 008 that reaches position 37
_get_language_code_from_bib_any_length(rec) ==
    LET field_008 == RecordGet(rec, "008")
    IN  IF field_008 # NoField /\ field_008.data # <<>> /\ Len(field_008.data) >= 38
        THEN SubSeq(field_008.data, 36, 38)
        ELSE <<>>

_get_language_code_from_bib(rec) ==
    LET field_008 == RecordGet(rec, "008")
    IN  IF field_008 # NoField /\ field_008.data # <<>> /\ Len(field_008.data) = 40
        THEN SubSeq(field_008.data, 36, 38)
        ELSE <<>>

get_language_name(rec) ==
    LET language_code == _get_language_code_from_bib(rec)
    IN  IF language_code \in DOMAIN language_map THEN language_map[language_code] ELSE <<>>

get_bib_id(marc_record) == get_record_id(marc_record)

---------------------------------------------------------------------------
(* metadata/marc.py: creators                                              *)

\* Field.get(code, default): the first subfield of this code, or the default
FieldGet(field, code, default) ==
    IF get_subfields(field, code) = <<>> THEN default ELSE get_subfields(field, code)[1]

_get_creator_info_from_bib(rec) ==
    LET f245 == RecordGet(rec, "245")
    IN  IF f245 # NoField THEN Split(FieldGet(f245, "c", <<>>), ";") ELSE <<>>

attribution_phrases ==
    <<<<"d", "i", "r", "e", "c", "t", "e", "d", " ", "b", "y">>,
      <<"d", "i", "r", "e", "c", "t", "o", "r">>,
      <<"a", " ", "f", "i", "l", "m", " ", "b", "y">>,
      <<"s", "u", "p", "e", "r", "v", "i", "s", "e", "d", " ", "b", "y">>>>

\* the text after the phrase that comes first in the source, whatever its
\* place in the list
CreatorString_FirstInText(source_string, phrases) ==
    LET present == {k \in 1..Len(phrases) : HasSubstring(Lower(source_string), phrases[k])}
    IN  IF present = {} THEN <<>>
        ELSE LET k == CHOOSE x \in present : \A y \in present :
                          Find(Lower(source_string), phrases[x])
                              <= Find(Lower(source_string), phrases[y])
                 start_index == Find(Lower(source_string), phrases[k]) + Len(phrases[k])
             IN  Strip(SubSeq(source_string, start_index + 1, Len(source_string)))

\* the loop over the phrases: the text after the first phrase, in the order
\* of the list, that the lower-cased source contains
RECURSIVE CreatorString(_, _)
CreatorString(source_string, phrases) ==
    IF phrases = <<>> THEN <<>>
    ELSE IF HasSubstring(Lower(source_string), Head(phrases))
         THEN LET start_index == Find(Lower(source_string), Head(phrases)) + Len(Head(phrases))
              IN  Strip(SubSeq(source_string, start_index + 1, Len(source_string)))
         ELSE CreatorString(source_string, Tail(phrases))

\* the entities the spaCy model knows in the model's texts, with their labels
KnownEntities ==
    <<[text |-> <<"J", "o", "h", "n", " ", "D", "i", "r", "e", "c", "t", "o", "r">>, label_ |-> "PERSON"],
      [text |-> <<"J", "e", "s", "s", "i", "c", "a", " ", "C", "o", "-", "D", "i", "r", "e", "c", "t", "o", "r">>, label_ |-> "PERSON"],
      [text |-> <<"J", "a", "n", "e", " ", "W", "r", "i", "t", "e", "r">>, label_ |-> "PERSON"],
      [text |-> <<"U", "C", "L", "A">>, label_ |-> "ORG"]>>

\* model(text).ents: the known entities the text holds, in text order
RECURSIVE EntitiesFrom(_, _)
EntitiesFrom(text, from) ==
    LET found == {k \in 1..Len(KnownEntities) :
                      \E i \in Occurrences(text, KnownEntities[k].text) : i >= from}
        PlaceOf(k) == CHOOSE i \in Occurrences(text, KnownEntities[k].text) :
                          /\ i >= from
                          /\ \A j \in Occurrences(text, KnownEntities[k].text) :
                                 j >= from => i <= j
    IN  IF found = {} THEN <<>>
        ELSE LET k == CHOOSE x \in found : \A y \in found : PlaceOf(x) <= PlaceOf(y)
             IN  <<KnownEntities[k]>>
                     \o EntitiesFrom(text, PlaceOf(k) + Len(KnownEntities[k].text))

Entities(text) == EntitiesFrom(text, 0)

RECURSIVE PersonsOf(_)
PersonsOf(ents) ==
    IF ents = <<>> THEN <<>>
    ELSE IF Head(ents).label_ = "PERSON"
         THEN <<Head(ents).text>> \o PersonsOf(Tail(ents))
         ELSE PersonsOf(Tail(ents))

\* the names of a string are taken whether or not it holds a phrase
_parse_creators_any_segment(source_string) ==
    PersonsOf(Entities(Strip(source_string)))

_parse_creators(source_string) ==
    LET creator_string == CreatorString(source_string, attribution_phrases)
    IN  IF creator_string = <<>> THEN <<>> ELSE PersonsOf(Entities(creator_string))

\* the texts the calls of _parse_creators on these strings pass to the
\* model, in order: model(creator_string) is reached with a non-empty text only
RECURSIVE ModelCalls(_)
ModelCalls(creators) ==
    IF creators = <<>> THEN <<>>
    ELSE LET creator_string == CreatorString(Head(creators), attribution_phrases)
         IN  (IF creator_string = <<>> THEN <<>> ELSE <<creator_string>>)
                 \o ModelCalls(Tail(creators))

RECURSIVE ParsedCreators(_)
ParsedCreators(creators) ==
    IF creators = <<>> THEN <<>>
    ELSE _parse_creators(Head(creators)) \o ParsedCreators(Tail(creators))

get_creators(rec) == ParsedCreators(_get_creator_info_from_bib(rec))

---------------------------------------------------------------------------
(* metadata/mams_metadata.py: get_mams_metadata, statement by statement    *)

\* the metadata dict literal; the inventory fields are attributes of the
\* Filemaker record and raise when the record lacks them
BaseMetadata(bib, fm_record, dd_record, titles, date_info) ==
    LET inventory_id == get_inventory_id(fm_record)
        inventory_no == get_inventory_number(fm_record)
    IN  IF inventory_id.kind = "raise" THEN inventory_id
        ELSE IF inventory_no.kind = "raise" THEN inventory_no
        ELSE Return(Update(Update(
                 [alma_bib_id |-> get_bib_id(bib),
                  inventory_id |-> inventory_id.value,
                  uuid |-> get_uuid(dd_record),
                  inventory_numbers |-> <<inventory_no.value>>,
                  creators |-> get_creators(bib),
                  language |-> get_language_name(bib),
                  file_name |-> get_file_name(dd_record),
                  asset_type |-> get_asset_type(dd_record),
                  media_type |-> get_media_type(dd_record),
                  audio_class |-> get_audio_class(dd_record)],
                 titles), date_info))

\* the key is written whether or not an identifier was passed
WithMatchAsset_Always(metadata, match_asset) ==
    Put(metadata, "match_asset", match_asset.value)

\* if match_asset_uuid: metadata["match_asset"] = match_asset_uuid
WithMatchAsset(metadata, match_asset) ==
    IF match_asset.given /\ match_asset.value # <<>>
    THEN Put(metadata, "match_asset", match_asset.value)
    ELSE metadata

DCP == <<"D", "C", "P">>

DPX == <<"D", "P", "X">>

\* the override by file type, with the bundle written under the values the
\* metadata already has
WithFileTypeOverride_SourceKept(metadata, dd_record) ==
    LET file_type == DictGet(dd_record, "file_type", <<>>)
    IN  IF file_type = DCP THEN Update(get_dcp_info(dd_record), metadata)
        ELSE IF file_type = DPX THEN Update(get_dpx_info(dd_record), metadata)
        ELSE metadata

\* the override by file type
WithFileTypeOverride(metadata, dd_record) ==
    LET file_type == DictGet(dd_record, "file_type", <<>>)
    IN  IF file_type = DCP THEN Update(metadata, get_dcp_info(dd_record))
        ELSE IF file_type = DPX THEN Update(metadata, get_dpx_info(dd_record))
        ELSE metadata

\* where a statement that called a function leaves get_mams_metadata: at the
\* next statement with the local bound, or out of the function when the
\* call raised
Bound(frame, name, outcome, next_pc) ==
    IF outcome.kind = "raise"
    THEN [pc |-> "done", locals |-> frame, result |-> outcome]
    ELSE [pc |-> next_pc, locals |-> Put(frame, name, outcome.value), result |-> NoResult]

\* a failure of get_title_info is caught and the titles are left out
TitlesBound_Recovering(frame, outcome) ==
    IF outcome.kind = "raise"
    THEN [pc |-> "titled", locals |-> Put(frame, "titles", EmptyDict), result |-> NoResult]
    ELSE [pc |-> "titled", locals |-> Put(frame, "titles", outcome.value), result |-> NoResult]

\* titles = get_title_info(bib_record, is_series): nothing is caught
TitlesBound(frame, outcome) == Bound(frame, "titles", outcome, "titled")

---------------------------------------------------------------------------
(* Calls of get_title_info on bounded records.                             *)

\* at most this many subfields of one code in a 245
MaxRepeat == 2

\* the values a 245 subfield of each code takes: one that normalises to a
\* text and one that normalises to nothing
TitleValues(code) ==
    CASE code = "a" -> {<<"M", "a", "i", "n", " ", "/">>, <<".">>}
      [] code = "b" -> {<<"R", "e", "s", "t", ":">>, <<"[", "]">>}
      [] code = "p" -> {<<"[", "P", "a", "r", "t", "]">>, <<" ">>}
      [] code = "n" -> {<<"N", "o", " ", "1", " ", ".", " ">>, <<>>}

SubfieldsOf(code, values) == [i \in 1..Len(values) |-> Subfield(code, values[i])]

TitleStatements ==
    { DataField("245", "0", "0",
                SubfieldsOf("a", a) \o SubfieldsOf("b", b)
                    \o SubfieldsOf("p", p) \o SubfieldsOf("n", n)) :
        a \in SeqsUpTo(TitleValues("a"), MaxRepeat),
        b \in SeqsUpTo(TitleValues("b"), MaxRepeat),
        p \in SeqsUpTo(TitleValues("p"), MaxRepeat),
        n \in SeqsUpTo(TitleValues("n"), MaxRepeat) }

Field001 == ControlField("001", <<"1", "2", "3", "4", "5">>)

\* the 246 fields of a record: none, or one with first indicator 1 before
\* two with first indicators 0 and 3 and blank second indicator
VaryingTitles ==
    {<<>>,
     <<DataField("246", "1", " ", <<Subfield("a", <<"O", "n", "e">>)>>),
       DataField("246", "0", " ", <<Subfield("a", <<"[", "T", "w", "o", "]">>)>>),
       DataField("246", "3", " ", <<Subfield("a", <<"A", "l", "t", " ", "/">>)>>)>>}

TitleRecords ==
    { ids \o ts \o alt : ids \in {<<>>, <<Field001>>},
                         ts \in {<<>>} \cup {<<t>> : t \in TitleStatements},
                         alt \in VaryingTitles }

InitTitles ==
    /\ op = "get_title_info"
    /\ bib_record \in TitleRecords
    /\ is_series \in BOOLEAN
    /\ date_string = <<>>
    /\ NoMamsArguments
    /\ NoUtilsArguments
    /\ NoClientCall
    /\ OneCall
    /\ pc = "ready"
    /\ result = NoResult

GetTitleInfo ==
    /\ op = "get_title_info"
    /\ pc = "ready"
    /\ result' = get_title_info(bib_record, is_series)
    /\ pc' = "done"
    /\ UNCHANGED <<args, invocations, locals>>

NextTitles == GetTitleInfo

SpecTitles == InitTitles /\ [][NextTitles]_vars

---------------------------------------------------------------------------
(* Claims on get_title_info.                                               *)

\* the first subfield of a code in the 245 of the record, normalised
\* (nothing when the 245 has no such subfield)
NormFirst(rec, code) ==
    LET values == get_subfields(RecordGet(rec, "245"), code)
    IN  IF values = <<>> THEN <<>> ELSE StripItem(values[1])

\* the main title of the case table: $a, then ". " and $b when $b is there
TableMain(rec) ==
    IF NormFirst(rec, "b") = <<>>
    THEN NormFirst(rec, "a")
    ELSE NormFirst(rec, "a") \o <<".", " ">> \o NormFirst(rec, "b")

\* the rows of the case table that apply to an input
TableRows(name, number, series) ==
    {r \in 1..5 :
        \/ r = 1 /\ name = <<>> /\ number = <<>>
        \/ r = 2 /\ name = <<>> /\ number # <<>> /\ ~series
        \/ r = 3 /\ name = <<>> /\ number # <<>> /\ series
        \/ r = 4 /\ name # <<>> /\ number = <<>>
        \/ r = 5 /\ name # <<>> /\ number # <<>>}

\* the dictionary of a row of the case table
TableRow(r, main, name, number) ==
    CASE r = 1 -> [title |-> main]
      [] r = 2 -> [title |-> main \o <<".", " ">> \o number]
      [] r = 3 -> [title |-> main \o <<".", " ">> \o number,
                   series_title |-> main, episode_title |-> number]
      [] r = 4 -> [title |-> main \o <<".", " ">> \o name,
                   series_title |-> main, episode_title |-> name]
      [] r = 5 -> [title |-> main \o <<".", " ">> \o name \o <<".", " ">> \o number,
                   series_title |-> main,
                   episode_title |-> name \o <<".", " ">> \o number]

TitleCallDone == op = "get_title_info" /\ pc = "done"

HasMainTitle(rec) == RecordGet(rec, "245") # NoField /\ NormFirst(rec, "a") # <<>>

\* C1: for every record whose 245 has a non-empty normalised main title,
\* get_title_info returns exactly the dictionary of the one row of the case
\* table that applies, and is_series changes the result exactly in the rows
\* where the name of part is absent and the number of part is present.
C1_TitleCaseTable ==
    (TitleCallDone /\ HasMainTitle(bib_record)) =>
        LET name == NormFirst(bib_record, "p")
            number == NormFirst(bib_record, "n")
            rows == TableRows(name, number, is_series)
        IN  /\ Cardinality(rows) = 1
            /\ \A r \in rows :
                   result = Return(TableRow(r, TableMain(bib_record), name, number))
            /\ (get_title_info(bib_record, TRUE) # get_title_info(bib_record, FALSE))
                   <=> (name = <<>> /\ number # <<>>)

\* C1 witness: a series record with main title, remainder and number of part
\* and no name of part has been composed into the three keys
C1_Witness ==
    /\ TitleCallDone
    /\ HasMainTitle(bib_record)
    /\ is_series
    /\ NormFirst(bib_record, "b") # <<>>
    /\ NormFirst(bib_record, "p") = <<>>
    /\ NormFirst(bib_record, "n") # <<>>
    /\ result.kind = "return"
    /\ DOMAIN result.value = {"title", "series_title", "episode_title"}

\* C2 (as amended): title composition fails with a ValueError naming the 245
\* field when the record has no 245, and with a ValueError naming 245 $a when
\* the 245 is there but its $a is absent or empty after normalisation; both
\* failures are of the one kind ValueError, told apart by their message only,
\* and no title dictionary is returned in either case.
C2_TitleErrors ==
    TitleCallDone =>
        /\ RecordGet(bib_record, "245") = NoField =>
               result = Raise("ValueError", No245Field, get_record_id(bib_record))
        /\ (RecordGet(bib_record, "245") # NoField /\ NormFirst(bib_record, "a") = <<>>) =>
               result = Raise("ValueError", No245a, get_record_id(bib_record))
        /\ result.kind = "raise" => ~HasMainTitle(bib_record)

\* C2 witness: a 245 whose first $a normalises to nothing has been refused
C2_Witness ==
    /\ TitleCallDone
    /\ RecordGet(bib_record, "245") # NoField
    /\ get_subfields(RecordGet(bib_record, "245"), "a") # <<>>
    /\ NormFirst(bib_record, "a") = <<>>
    /\ result.kind = "raise"
    /\ result.message = No245a

\* C2 (as claimed): the failure for a missing main title is of another error
\* kind than the failure for a missing 245 field.
C2_DistinctErrorKinds ==
    (TitleCallDone /\ RecordGet(bib_record, "245") # NoField
                   /\ NormFirst(bib_record, "a") = <<>>) =>
        /\ result.kind = "raise"
        /\ result.type # get_title_info(<<>>, is_series).type

\* the clean value a decorated 245 value stands for: "Main /" for "Main",
\* "[Part]" for "Part", "No 1 . " for "No 1"
CleanValue(value) ==
    CASE value = <<"M", "a", "i", "n", " ", "/">> -> <<"M", "a", "i", "n">>
      [] value = <<"[", "P", "a", "r", "t", "]">> -> <<"P", "a", "r", "t">>
      [] value = <<"N", "o", " ", "1", " ", ".", " ">> -> <<"N", "o", " ", "1">>
      [] OTHER -> value

\* the record with the $a, $p and $n of its data fields clean
Undecorated(rec) ==
    [i \in 1..Len(rec) |->
        IF "subfields" \in DOMAIN rec[i]
        THEN [rec[i] EXCEPT !.subfields =
                 [k \in 1..Len(@) |->
                     IF @[k].code \in {"a", "p", "n"}
                     THEN Subfield(@[k].code, CleanValue(@[k].value))
                     ELSE @[k]]]
        ELSE rec[i]]

\* C12: a 245 whose $a, $p and $n differ from clean values only by a trailing
\* slash, by square brackets around them or by trailing punctuation followed
\* by spaces gives the outcome get_title_info gives for the clean values.
C12_DecorationIgnored ==
    TitleCallDone => result = get_title_info(Undecorated(bib_record), is_series)

\* C12 witness: "Main /", "[Part]" and "No 1 . " have been composed into the
\* titles of "Main", "Part" and "No 1"
C12_Witness ==
    /\ TitleCallDone
    /\ Undecorated(bib_record) # bib_record
    /\ result.kind = "return"
    /\ result.value.title = <<"M", "a", "i", "n", ".", " ", "P", "a", "r", "t", ".", " ", "N", "o", " ", "1">>
    /\ "episode_title" \in DOMAIN result.value
    /\ result.value.episode_title = <<"P", "a", "r", "t", ".", " ", "N", "o", " ", "1">>


\* the normalised first $a of the 246 fields with first indicator 0, 2 or 3
\* and blank second indicator, in field order, those that are empty left out
RECURSIVE AlternativeTitles(_)
AlternativeTitles(rec) ==
    IF rec = <<>> THEN <<>>
    ELSE LET field == Head(rec)
             listed == /\ field.tag = "246"
                       /\ field.indicator1 \in {"0", "2", "3"}
                       /\ field.indicator2 = " "
                       /\ get_subfields(field, "a") # <<>>
                       /\ StripItem(get_subfields(field, "a")[1]) # <<>>
         IN  (IF listed THEN <<StripItem(get_subfields(field, "a")[1])>> ELSE <<>>)
                 \o AlternativeTitles(Tail(rec))

\* C13 (as claimed): the titles returned for a record hold the key
\* alternative_titles with the normalised $a of its 246 fields of first
\* indicator 0, 2 or 3 and blank second indicator, in field order, when there
\* is such a value, and no such key when there is none.
C13_AlternativeTitles ==
    (TitleCallDone /\ result.kind = "return") =>
        IF AlternativeTitles(bib_record) # <<>>
        THEN /\ "alternative_titles" \in DOMAIN result.value
             /\ result.value["alternative_titles"] = AlternativeTitles(bib_record)
        ELSE "alternative_titles" \notin DOMAIN result.value


---------------------------------------------------------------------------
(* Calls of parse_date on bounded texts: a core, after an optional opening *)
(* bracket or space, followed by closing brackets, punctuation and spaces. *)

\* at most this many characters after the core of a raw date
MaxSuffix == 3

DatePrefixes == {<<>>, <<"[">>, <<" ">>}

DateSuffixes == SeqsUpTo({"]", ".", " ", "?"}, MaxSuffix)

NoDateAbbreviation == <<"n", ".", "d">>

InnerBrackets == <<"1", "9", "9", "9", " ", "[", "i", ".", "e", ".", " ", "2", "0", "0", "0">>

LongNumber == <<"9", "9", "9", "9", "9", "9", "9", "9", "9", "9", "9">>

DateCores ==
    {<<>>, <<"2", "0", "2", "3">>, <<"2", "0", "2", "-">>, <<"1", "9", "-", "-">>, <<"2", "0", "-">>,
     April5, Iso20230405, NoDateAbbreviation, InnerBrackets, LongNumber}

RawDates ==
    {pre \o core \o suf : pre \in DatePrefixes, core \in DateCores, suf \in DateSuffixes}

InitParse ==
    /\ op = "parse_date"
    /\ bib_record = <<>>
    /\ is_series = FALSE
    /\ date_string \in RawDates
    /\ NoMamsArguments
    /\ NoUtilsArguments
    /\ NoClientCall
    /\ OneCall
    /\ pc = "ready"
    /\ result = NoResult

\* parse_date(date_string)
ParseDate ==
    /\ op = "parse_date"
    /\ pc = "ready"
    /\ \E parsed \in DateutilOutcomes(Stripped(date_string)) :
           result' = parse_date(date_string, parsed)
    /\ pc' = "done"
    /\ UNCHANGED <<args, invocations, locals>>

\* parse_date applied to what parse_date returned
ParseDateAgain ==
    /\ op = "parse_date"
    /\ pc = "done"
    /\ result.kind = "return"
    /\ date_string' = result.value
    /\ \E parsed \in DateutilOutcomes(Stripped(result.value)) :
           result' = parse_date(result.value, parsed)
    /\ pc' = "again"
    /\ UNCHANGED <<op, bib_record, is_series, filemaker_record, digital_data_record,
                   match_asset_uuid, locals, items, records, inventory_number,
                   call_number, client, record_id, invocations>>

NextParse == ParseDate \/ ParseDateAgain

SpecParse == InitParse /\ [][NextParse]_vars

---------------------------------------------------------------------------
(* Claims on parse_date.                                                   *)

\* parse_date has been applied to date_string and result is its outcome
ParseCallDone == op = "parse_date" /\ pc \in {"done", "again"}

\* the raw date without its trailing punctuation
WithoutTrailingPunctuation(raw) == RStrip(raw, TrailingPunctuation)

\* the raw date is "[" d "]" followed by punctuation only
IsWhollyBracketed(raw) ==
    LET t == WithoutTrailingPunctuation(raw)
    IN  Len(t) >= 2 /\ t[1] = "[" /\ t[Len(t)] = "]"

\* the d of such a raw date
BracketedPart(raw) ==
    LET t == WithoutTrailingPunctuation(raw) IN SubSeq(t, 2, Len(t) - 1)

IsFourDigitYear(d) == Len(d) = 4 /\ IsDigit(d)

\* an uncertain year: four characters, digits and hyphens, a hyphen among them
IsUncertainYear(d) ==
    /\ Len(d) = 4
    /\ \A i \in 1..Len(d) : d[i] \in Digits \cup {"-"}
    /\ Contains(d, "-")

\* d is a text the library reads as one certain calendar date
ParsesAsCalendarDate(d) == \E date \in {Iso20230405} : DateutilOutcomes(d) = {ParsedAs(date)}

CalendarDateOf(d) == CHOOSE date \in {Iso20230405} : DateutilOutcomes(d) = {ParsedAs(date)}

\* C8: for every raw date "[" d "]" followed by punctuation from .,;:!? only,
\* parse_date returns "[" f "]" without the punctuation, where f is d when d
\* is a four-digit year or an uncertain year, and the YYYY-MM-DD form of d
\* when d parses as a calendar date.
C8_BracketsRoundTrip ==
    (ParseCallDone /\ IsWhollyBracketed(date_string)) =>
        LET d == BracketedPart(date_string)
        IN  /\ (IsFourDigitYear(d) \/ IsUncertainYear(d)) =>
                   result = Return(<<"[">> \o d \o <<"]">>)
            /\ (ParsesAsCalendarDate(d) /\ ~IsFourDigitYear(d) /\ ~IsUncertainYear(d)) =>
                   result = Return(<<"[">> \o CalendarDateOf(d) \o <<"]">>)

\* C8 witness: "[April 5, 2023]." has been formatted to "[2023-04-05]"
C8_Witness ==
    /\ ParseCallDone
    /\ date_string = <<"[">> \o April5 \o <<"]", ".">>
    /\ result = Return(<<"[">> \o Iso20230405 \o <<"]">>)

\* C9: for every x of four characters that is all digits, or contains a
\* hyphen and has nothing parse_date takes off (no pair of square brackets,
\* no trailing .,;:!? and no whitespace around it), parse_date(x) = x; applied
\* again to what it returned, parse_date returns the same again.
C9_YearIdempotent ==
    (ParseCallDone /\ Len(date_string) = 4 /\ Stripped(date_string) = date_string
                   /\ (IsDigit(date_string) \/ Contains(date_string, "-"))) =>
        result = Return(date_string)

\* C9 (as claimed): for every x that is a bare four-digit year or a
\* four-character string containing a hyphen, parse_date(x) = x, also when
\* applied again.
C9_AnyHyphenString ==
    (ParseCallDone /\ Len(date_string) = 4
                   /\ (IsDigit(date_string) \/ Contains(date_string, "-"))) =>
        result = Return(date_string)

\* C9 witness: parse_date has been applied to "202-" and again to its result
C9_Witness ==
    /\ op = "parse_date"
    /\ pc = "again"
    /\ date_string = <<"2", "0", "2", "-">>
    /\ result = Return(<<"2", "0", "2", "-">>)

\* the library call of parse_date on this raw date cannot succeed
CannotBeParsed(raw) ==
    /\ ~IsYearForm(Stripped(raw))
    /\ \A parsed \in DateutilOutcomes(Stripped(raw)) : parsed.kind = "raise"

\* C10 (as claimed): for every raw date that cannot be parsed as a calendar
\* date and is no year form, parse_date raises nothing and returns the
\* original text unchanged.
C10_UnparseableReturnedUnchanged ==
    (ParseCallDone /\ CannotBeParsed(date_string)) => result = Return(date_string)

\* the raw date, whitespace and trailing punctuation aside, begins with "["
\* and ends with "]"
IsWrappedAsAWhole(raw) ==
    LET t == SelectSeq(raw, LAMBDA c : c \notin Whitespace \cup TrailingPunctuation)
    IN  Len(t) >= 2 /\ t[1] = "[" /\ t[Len(t)] = "]"

\* how many square brackets the text has
BracketCount(text) == Len(SelectSeq(text, LAMBDA c : c \in {"[", "]"}))

\* C25 (as claimed): parse_date takes a raw date as bracketed only when the
\* whole string is wrapped in "[" ... "]": what it returns is wrapped in
\* brackets if and only if the raw date was wrapped as a whole, and from a raw
\* date with brackets around an inner part only ("1999 [i.e. 2000]") no
\* bracket is taken and the text returned is not wrapped.
C25_BracketedOnlyWhenWhollyWrapped ==
    (ParseCallDone /\ result.kind = "return") =>
        /\ IsWrappedAsAWhole(result.value) <=> IsWrappedAsAWhole(date_string)
        /\ ~IsWrappedAsAWhole(date_string) =>
               BracketCount(result.value) = BracketCount(date_string)

---------------------------------------------------------------------------
(* Calls of get_date_info on bounded records.                              *)

\* at most this many fields in a record passed to get_date_info
MaxDateFields == 3

DateSubfields(values) == SubfieldsOf("c", values)

Fields260 ==
    {DataField("260", " ", " ", DateSubfields(<<<<"2", "0", "2", "3">>>>)),
     DataField("260", " ", " ", DateSubfields(<<<<" ", "1", "9", "9", "9", " ">>, <<"2", "0", "2", "3">>>>)),
     DataField("260", " ", " ", <<Subfield("a", <<"L", "o", "s", " ", "A", "n", "g", "e", "l", "e", "s", " ", ":">>)>>),
     DataField("260", " ", " ", DateSubfields(<<<<" ">>>>)),
     DataField("260", "1", "0", DateSubfields(<<<<"2", "0", "2", "3">>>>)),
     DataField("260", " ", " ", DateSubfields(<<LongNumber>>)),
     DataField("260", " ", " ", DateSubfields(<<<<>>, <<"2", "0", "2", "3">>>>))}

Fields264 ==
    {DataField("264", " ", "0", DateSubfields(<<<<"2", "0", "2", "0">>>>)),
     DataField("264", " ", "1", DateSubfields(<<<<"2", "0", "2", "1">>>>)),
     DataField("264", " ", "2", DateSubfields(<<<<"2", "0", "2", "2">>>>)),
     DataField("264", " ", "3", DateSubfields(<<April5>>)),
     DataField("264", " ", "4", DateSubfields(<<<<"c", "2", "0", "2", "4", ".">>>>)),
     DataField("264", " ", "2", DateSubfields(<<<<"[", "2", "0", "1", "2", "]", ".">>, <<"2", "0", "2", "2">>>>)),
     DataField("264", " ", "2", <<Subfield("b", <<"L", "o", "s", " ", "A", "n", "g", "e", "l", "e", "s", " ", ":">>)>>),
     DataField("264", "1", "2", DateSubfields(<<<<"2", "0", "2", "2">>>>)),
     DataField("264", " ", " ", DateSubfields(<<<<"2", "0", "2", "9">>>>)),
     DataField("264", " ", "1", DateSubfields(<<LongNumber>>))}

\* a 40-character 008 with 1970 at positions 7-10 (counted from 0)
Field008 ==
    ControlField("008", [i \in 1..40 |->
        CASE i = 8 -> "1" [] i = 9 -> "9" [] i = 10 -> "7" [] i = 11 -> "0" [] OTHER -> "x"])

DateFields == Fields260 \cup Fields264 \cup {Field008}

DateRecords == SeqsUpTo(DateFields, MaxDateFields)

InitDates ==
    /\ op = "get_date_info"
    /\ bib_record \in DateRecords
    /\ is_series = FALSE
    /\ date_string = <<>>
    /\ NoMamsArguments
    /\ NoUtilsArguments
    /\ NoClientCall
    /\ OneCall
    /\ pc = "ready"
    /\ result = NoResult

\* get_date_info(bib_record)
GetDateInfo ==
    /\ op = "get_date_info"
    /\ pc = "ready"
    /\ \E parsed \in DateutilOutcomes(Stripped(_get_date_from_bib(bib_record).date)) :
           result' = get_date_info(bib_record, parsed)
    /\ locals' = [date_dict |-> DateDict(bib_record)]
    /\ pc' = "done"
    /\ UNCHANGED <<args, invocations>>

NextDates == GetDateInfo

SpecDates == InitDates /\ [][NextDates]_vars

---------------------------------------------------------------------------
(* Claims on get_date_info.                                                *)

DateCallDone == op = "get_date_info" /\ pc = "done"

HasSubfield(field, code) == \E k \in 1..Len(field.subfields) : field.subfields[k].code = code

FirstSubfield(field, code) ==
    field.subfields[CHOOSE k \in 1..Len(field.subfields) :
                        /\ field.subfields[k].code = code
                        /\ \A j \in 1..(k - 1) : field.subfields[j].code # code].value

\* the positions of the 260 fields with both indicators blank and a $c
Dated260(rec) ==
    {i \in 1..Len(rec) : /\ rec[i].tag = "260"
                         /\ rec[i].indicator1 = " " /\ rec[i].indicator2 = " "
                         /\ HasSubfield(rec[i], "c")}

\* the positions of the 264 fields with blank first indicator and a $c
Dated264(rec) ==
    {i \in 1..Len(rec) : /\ rec[i].tag = "264"
                         /\ rec[i].indicator1 = " "
                         /\ HasSubfield(rec[i], "c")}

Minimum(S) == CHOOSE i \in S : \A j \in S : i <= j

\* the results the date resolver's formatting of a sub-value may give: the
\* value without its surrounding whitespace, through parse_date
FormattedDates(value) ==
    {parse_date(Strip(value), parsed) : parsed \in DateutilOutcomes(Stripped(Strip(value)))}

\* result is the one pair of this qualifier and the formatted sub-value
ResultIsDate(qualifier, value) ==
    \E f \in FormattedDates(value) :
        /\ f.kind = "return"
        /\ result.kind = "return"
        /\ DOMAIN result.value = {qualifier}
        /\ result.value[qualifier] = f.value

\* C4 (as claimed): a record with a 260 with both indicators blank and a $c, and a 264
\* with blank first indicator and a $c, gets release_broadcast_date with the
\* formatted first $c of the first such 260, whatever the order of the fields
\* and the second indicator of the 264.
C4_Date260WinsOver264 ==
    (DateCallDone /\ Dated260(bib_record) # {} /\ Dated264(bib_record) # {}) =>
        ResultIsDate("release_broadcast_date",
                     FirstSubfield(bib_record[Minimum(Dated260(bib_record))], "c"))

\* the place of a second indicator in the priority 2, 1, 4, 0, 3
PriorityRank(indicator) ==
    CASE indicator = "2" -> 1 [] indicator = "1" -> 2 [] indicator = "4" -> 3
      [] indicator = "0" -> 4 [] indicator = "3" -> 5

QualifierOf(indicator) ==
    CASE indicator = "2" -> "distribution_date"
      [] indicator = "1" -> "release_broadcast_date"
      [] indicator = "4" -> "copyright_notice_date"
      [] indicator = "0" -> "production_date"
      [] indicator = "3" -> "manufacture_date"

\* the dated 264 fields with a listed second indicator
Listed264(rec) == {i \in Dated264(rec) : rec[i].indicator2 \in {"2", "1", "4", "0", "3"}}

\* the one that wins: best priority, then earliest
Winner264(rec) ==
    CHOOSE i \in Listed264(rec) :
        \A j \in Listed264(rec) :
            \/ PriorityRank(rec[i].indicator2) < PriorityRank(rec[j].indicator2)
            \/ /\ rec[i].indicator2 = rec[j].indicator2
               /\ i <= j

\* C5: with no dated 260, the qualifier is chosen among the dated 264 fields
\* by second indicator in the priority 2, 1, 4, 0, 3, whatever the field
\* order; among equal second indicators the earliest field wins, a field
\* without $c is passed over, and the raw date is the winner's first $c
\* (without the whitespace around it).
C5_Priority264 ==
    (DateCallDone /\ Dated260(bib_record) = {} /\ Listed264(bib_record) # {}) =>
        LET w == bib_record[Winner264(bib_record)]
        IN  /\ locals.date_dict = [date |-> Strip(FirstSubfield(w, "c")),
                                   qualifier |-> QualifierOf(w.indicator2)]
            /\ result.kind = "return" =>
                   ResultIsDate(QualifierOf(w.indicator2), FirstSubfield(w, "c"))

\* C5 witness: second indicator 1 stands before second indicator 2, an
\* undated 264 with second indicator 2 is there too, and distribution_date
\* has been returned
C5_Witness ==
    /\ DateCallDone
    /\ Dated260(bib_record) = {}
    /\ \E i, j, k \in 1..Len(bib_record) :
           /\ i < j
           /\ i \in Dated264(bib_record) /\ bib_record[i].indicator2 = "1"
           /\ j \in Dated264(bib_record) /\ bib_record[j].indicator2 = "2"
           /\ bib_record[k].tag = "264" /\ bib_record[k].indicator2 = "2"
           /\ ~HasSubfield(bib_record[k], "c")
    /\ locals.date_dict.qualifier = "distribution_date"
    /\ result.kind = "return"
    /\ DOMAIN result.value = {"distribution_date"}

Qualifiers ==
    {"distribution_date", "release_broadcast_date", "copyright_notice_date",
     "production_date", "manufacture_date"}

\* C6 (as claimed): get_date_info returns a dictionary with exactly one key, one of the
\* five qualifiers; with no dated 260 and no dated 264 of a listed second
\* indicator it is exactly {release_broadcast_date: ""}.
C6_OneQualifiedDate ==
    DateCallDone =>
        /\ result.kind = "return"
        /\ \E q \in Qualifiers : DOMAIN result.value = {q}
        /\ (Dated260(bib_record) = {} /\ Listed264(bib_record) = {}) =>
               result = Return([release_broadcast_date |-> <<>>])

\* the 40-character 008 fields of a record
Valid008(rec) == {i \in 1..Len(rec) : rec[i].tag = "008" /\ Len(rec[i].data) = 40}

\* C7 (as claimed): a record with no 260 or 264 date and a 40-character 008
\* gets release_broadcast_date with the year at positions 7-10 of the 008.
C7_DateFrom008 ==
    (DateCallDone /\ Dated260(bib_record) = {} /\ Listed264(bib_record) = {}
                  /\ Valid008(bib_record) # {}) =>
        result = Return([release_broadcast_date |->
                            SubSeq(bib_record[Minimum(Valid008(bib_record))].data, 8, 11)])

\* the first $c of the first 260 of the record with both indicators blank
\* and a $c
First260Date(rec) == FirstSubfield(rec[Minimum(Dated260(rec))], "c")

\* C29: a 260 with both indicators blank that carries a $c shadows every 264
\* even when its date is empty: when the first $c of the first such 260 is
\* empty or only whitespace, get_date_info returns
\* {release_broadcast_date: ""}, whatever 264 fields the record has.
C29_Empty260ShadowsEvery264 ==
    (/\ DateCallDone
     /\ Dated260(bib_record) # {}
     /\ \A k \in 1..Len(First260Date(bib_record)) :
            First260Date(bib_record)[k] \in Whitespace) =>
        /\ result.kind = "return"
        /\ DOMAIN result.value = {"release_broadcast_date"}
        /\ result.value.release_broadcast_date = <<>>

\* C29 witness: a record with a 264 of distribution, dated 2022, before a
\* blank 260 has given the empty release_broadcast_date
C29_Witness ==
    /\ DateCallDone
    /\ bib_record = <<DataField("264", " ", "2", DateSubfields(<<<<"2", "0", "2", "2">>>>)),
                      DataField("260", " ", " ", DateSubfields(<<<<" ">>>>))>>
    /\ result = Return([release_broadcast_date |-> <<>>])

---------------------------------------------------------------------------
(* Calls of get_mams_metadata on bounded input triples.                    *)

MamsTitleStatements ==
    {<<>>,
     <<DataField("245", "0", "0", <<Subfield("c", <<"d", "i", "r", "e", "c", "t", "o", "r", ",", " ", "J", "o", "h", "n", " ", "D", "i", "r", "e", "c", "t", "o", "r", " ", "a", "n", "d", " ", "J", "e", "s", "s", "i", "c", "a", " ", "C", "o", "-", "D", "i", "r", "e", "c", "t", "o", "r", " ", ";", " ", "w", "r", "i", "t", "e", "r", ",", " ", "J", "a", "n", "e", " ", "W", "r", "i", "t", "e", "r", ".">>)>>)>>,
     <<DataField("245", "0", "0", <<Subfield("a", <<"M", "a", "i", "n", " ", "T", "i", "t", "l", "e", " ", "/">>)>>)>>,
     <<DataField("245", "0", "0", <<Subfield("a", <<"M", "a", "i", "n", " ", "T", "i", "t", "l", "e", " ", "/">>), Subfield("n", <<"N", "o", ".", " ", "1">>)>>)>>,
     <<DataField("245", "0", "0", <<Subfield("a", <<"M", "a", "i", "n", " ", "T", "i", "t", "l", "e", " ", "/">>), Subfield("p", <<"[", "P", "a", "r", "t", "]">>),
                                    Subfield("n", <<"N", "o", ".", " ", "1">>), Subfield("c", <<"d", "i", "r", "e", "c", "t", "o", "r", ",", " ", "J", "o", "h", "n", " ", "D", "i", "r", "e", "c", "t", "o", "r", " ", "a", "n", "d", " ", "J", "e", "s", "s", "i", "c", "a", " ", "C", "o", "-", "D", "i", "r", "e", "c", "t", "o", "r", " ", ";", " ", "w", "r", "i", "t", "e", "r", ",", " ", "J", "a", "n", "e", " ", "W", "r", "i", "t", "e", "r", ".">>)>>)>>}

MamsDateFields ==
    {<<>>,
     <<DataField("260", " ", " ", DateSubfields(<<<<"[", "1", "9", "9", "9", "]", ".">>>>))>>,
     <<DataField("264", " ", "2", DateSubfields(<<April5>>))>>}

\* a 40-character 008 with the language code fre at positions 35-37
Field008French ==
    ControlField("008", [i \in 1..40 |->
        CASE i = 36 -> "f" [] i = 37 -> "r" [] i = 38 -> "e" [] OTHER -> " "])

Mams008Fields == {<<>>, <<Field008French>>, <<Field008>>}

MamsBibRecords ==
    {<<Field001>> \o t \o d \o l :
        t \in MamsTitleStatements, d \in MamsDateFields, l \in Mams008Fields}

InventoryFields == [inventory_id |-> <<"4", "2">>, inventory_no |-> <<"D", "V", "D", "1", "2", "3">>]

MamsFilemakerRecords ==
    {InventoryFields}
        \cup {Put(InventoryFields, "production_type", t) :
                 t \in {<<>>, <<" ", "N", "E", "W", "S", " ", "\r", "S", "H", "O", "R", "T", "\r">>, <<"S", "I", "L", "E", "N", "T", " ", "F", "I", "L", "M", "\r", "N", "E", "W", "S", "R", "E", "E", "L", "S">>}}

AssetFields ==
    [uuid |-> <<"u", "-", "1">>, file_name |-> <<"a", ".", "m", "o", "v">>, asset_type |-> <<"R", "a", "w">>,
     media_type |-> <<"v", "i", "d", "e", "o">>, audio_class |-> <<"5", ".", "1">>]

FolderFields == [file_folder_name |-> <<"f", "o", "l", "d", "e", "r">>, sub_folder_name |-> <<"s", "u", "b">>]

MamsDigitalDataRecords ==
    {Update(base, type) :
        base \in {AssetFields, Update(AssetFields, FolderFields)},
        type \in {EmptyDict, [file_type |-> DCP], [file_type |-> DPX], [file_type |-> <<"M", "O", "V">>]}}

InitMams ==
    /\ op = "get_mams_metadata"
    /\ bib_record \in MamsBibRecords
    /\ is_series = FALSE
    /\ date_string = <<>>
    /\ filemaker_record \in MamsFilemakerRecords
    /\ digital_data_record \in MamsDigitalDataRecords
    /\ match_asset_uuid \in {None, Given(<<>>), Given(<<"m", "-", "1">>)}
    /\ NoUtilsArguments
    /\ locals = <<>>
    /\ NoClientCall
    /\ OneCall
    /\ pc = "ready"
    /\ result = NoResult

MamsStep(next) ==
    /\ pc' = next.pc
    /\ locals' = next.locals
    /\ result' = next.result
    /\ UNCHANGED <<args, invocations>>

\* nlp_model = spacy.load("en_core_web_md")
MamsLoadModel ==
    /\ op = "get_mams_metadata"
    /\ pc = "ready"
    /\ pc' = "loaded"
    /\ UNCHANGED <<args, invocations, locals, result>>

\* is_series = is_series_production_type(filemaker_record)
MamsIsSeries ==
    /\ op = "get_mams_metadata"
    /\ pc = "loaded"
    /\ MamsStep(Bound(locals, "is_series",
                      is_series_production_type(filemaker_record), "classified"))

\* titles = get_title_info(bib_record, is_series)
MamsTitles ==
    /\ op = "get_mams_metadata"
    /\ pc = "classified"
    /\ MamsStep(TitlesBound(locals, get_title_info(bib_record, locals.is_series)))

\* date_info = get_date_info(bib_record)
MamsDateInfo ==
    /\ op = "get_mams_metadata"
    /\ pc = "titled"
    /\ \E parsed \in DateutilOutcomes(Stripped(_get_date_from_bib(bib_record).date)) :
           MamsStep(Bound(locals, "date_info", get_date_info(bib_record, parsed), "dated"))

\* metadata = {...}
MamsAssemble ==
    /\ op = "get_mams_metadata"
    /\ pc = "dated"
    /\ MamsStep(Bound(locals, "metadata",
                      BaseMetadata(bib_record, filemaker_record, digital_data_record,
                                   locals.titles, locals.date_info),
                      "assembled"))

\* if match_asset_uuid: ...
MamsMatchAsset ==
    /\ op = "get_mams_metadata"
    /\ pc = "assembled"
    /\ MamsStep(Bound(locals, "metadata",
                      Return(WithMatchAsset(locals.metadata, match_asset_uuid)),
                      "matched"))

\* the override by file type, and return metadata
MamsOverrideAndReturn ==
    /\ op = "get_mams_metadata"
    /\ pc = "matched"
    /\ pc' = "done"
    /\ locals' = Put(locals, "metadata",
                     WithFileTypeOverride(locals.metadata, digital_data_record))
    /\ result' = Return(WithFileTypeOverride(locals.metadata, digital_data_record))
    /\ UNCHANGED <<args, invocations>>

NextMams ==
    \/ MamsLoadModel
    \/ MamsIsSeries
    \/ MamsTitles
    \/ MamsDateInfo
    \/ MamsAssemble
    \/ MamsMatchAsset
    \/ MamsOverrideAndReturn

SpecMams == InitMams /\ [][NextMams]_vars

---------------------------------------------------------------------------
(* Claims on get_mams_metadata.                                            *)

\* C3: when title composition fails in get_mams_metadata (no 245, or no main
\* title), get_mams_metadata ends there with that same failure, and a record
\* it returns is never one without the title.
C3_TitleFailurePropagates ==
    [][/\ (/\ op = "get_mams_metadata"
           /\ pc = "classified"
           /\ get_title_info(bib_record, locals.is_series).kind = "raise") =>
              (/\ pc' = "done"
               /\ result' = get_title_info(bib_record, locals.is_series))
       /\ (op' = "get_mams_metadata" /\ pc' = "done" /\ result'.kind = "return") =>
              (/\ "title" \in DOMAIN result'.value
               /\ get_title_info(bib_record', locals'.is_series).kind = "return")]_vars

\* C3 witness: for a record with a 245 without $a, title composition has been
\* reached and get_mams_metadata has failed with the ValueError on 245 $a
C3_Witness ==
    /\ op = "get_mams_metadata"
    /\ pc = "done"
    /\ "is_series" \in DOMAIN locals
    /\ RecordGet(bib_record, "245") # NoField
    /\ result = Raise("ValueError", No245a, get_record_id(bib_record))

\* a call of get_mams_metadata that has returned a record
MamsReturned ==
    op = "get_mams_metadata" /\ pc = "done" /\ result.kind = "return"

\* what the digital data record holds under a key, "" when it has no such key
AssetValue(key) ==
    IF key \in DOMAIN digital_data_record THEN digital_data_record[key] ELSE <<>>

\* C21: in the record get_mams_metadata returns, the override by file type
\* has the last word: for file_type DCP or DPX file_name is "" whatever the
\* source file_name, folder_name is present (the source's file_folder_name),
\* and sub_folder_name is present for DCP and absent for DPX; for any other
\* file_type file_name is the source file_name and there is neither a
\* folder_name nor a sub_folder_name key.
C21_FileTypeOverrideLast ==
    MamsReturned =>
        IF AssetValue("file_type") \in {DCP, DPX}
        THEN /\ result.value.file_name = <<>>
             /\ "folder_name" \in DOMAIN result.value
             /\ result.value.folder_name = AssetValue("file_folder_name")
             /\ ("sub_folder_name" \in DOMAIN result.value) <=> (AssetValue("file_type") = DCP)
             /\ (AssetValue("file_type") = DCP) =>
                    result.value.sub_folder_name = AssetValue("sub_folder_name")
        ELSE /\ result.value.file_name = AssetValue("file_name")
             /\ "folder_name" \notin DOMAIN result.value
             /\ "sub_folder_name" \notin DOMAIN result.value

\* C21 witness: a DPX asset with a file name, a folder and a sub-folder has
\* been composed, and the record returned has the empty file_name, the folder
\* and no sub-folder
C21_Witness ==
    /\ MamsReturned
    /\ AssetValue("file_type") = DPX
    /\ AssetValue("file_name") # <<>>
    /\ AssetValue("sub_folder_name") # <<>>
    /\ locals.metadata = result.value
    /\ result.value.file_name = <<>>
    /\ result.value.folder_name = AssetValue("file_folder_name")
    /\ "sub_folder_name" \notin DOMAIN result.value

---------------------------------------------------------------------------
(* Calls of strip_whitespace_and_punctuation on bounded lists.             *)

\* at most this many strings in the list
MaxItems == 2

\* at most this many characters after the letter of a string
MaxTail == 2

StripPrefixes == {<<>>, <<"[">>, <<" ", "[">>}

StripTails == SeqsUpTo({".", "/", "]", " "}, MaxTail)

StripItems == {pre \o <<"a">> \o tail : pre \in StripPrefixes, tail \in StripTails}

InitStrip ==
    /\ op = "strip_whitespace_and_punctuation"
    /\ bib_record = <<>>
    /\ is_series = FALSE
    /\ date_string = <<>>
    /\ NoMamsArguments
    /\ items \in SeqsUpTo(StripItems, MaxItems)
    /\ records = <<>>
    /\ inventory_number = <<>>
    /\ call_number = <<>>
    /\ NoClientCall
    /\ OneCall
    /\ pc = "ready"
    /\ result = NoResult

\* strip_whitespace_and_punctuation(items)
StripWhitespaceAndPunctuation ==
    /\ op = "strip_whitespace_and_punctuation"
    /\ pc = "ready"
    /\ result' = Return(strip_whitespace_and_punctuation(items))
    /\ pc' = "done"
    /\ UNCHANGED <<args, invocations, locals>>

NextStrip == StripWhitespaceAndPunctuation

SpecStrip == InitStrip /\ [][NextStrip]_vars

---------------------------------------------------------------------------
(* Claims on strip_whitespace_and_punctuation.                             *)

StripCallDone == op = "strip_whitespace_and_punctuation" /\ pc = "done"

\* the largest of a set of naturals, 0 for the empty set
Maximum(S) == IF S = {} THEN 0 ELSE CHOOSE i \in S : \A j \in S : j <= i

\* the part of a text between its first and its last character outside a set
Between(text, chars) ==
    LET inside == {k \in 1..Len(text) : text[k] \notin chars}
    IN  IF inside = {} THEN <<>> ELSE SubSeq(text, Minimum(inside), Maximum(inside))

\* the text up to its last character outside a set
UpToLast(text, chars) ==
    SubSeq(text, 1, Maximum({k \in 1..Len(text) : text[k] \notin chars}))

\* C11 (as amended): the result has the length and order of the input, and
\* element i is input element i without its trailing run of characters of
\* string.punctuation (a slash, a bracket, a hyphen as much as .,;:!?) and
\* spaces, and then without the square brackets and spaces around it.
C11_StripEachItem ==
    StripCallDone =>
        /\ result.kind = "return"
        /\ Len(result.value) = Len(items)
        /\ \A i \in 1..Len(items) :
               result.value[i] =
                   Between(UpToLast(items[i], StringPunctuation \cup {" "}), {"[", "]", " "})

\* C11 witness: a list of two strings, the first ending in " /" and the
\* second wrapped in brackets, has been stripped to the bare letters
C11_Witness ==
    /\ StripCallDone
    /\ items = << <<"a", " ", "/">>, <<"[", "a", "]", ".">> >>
    /\ result = Return(<< <<"a">>, <<"a">> >>)

\* C11 (as claimed): element i is input element i with only trailing
\* characters of .,;:!? and surrounding whitespace removed, and then the
\* surrounding square brackets and whitespace; a trailing slash stays.
C11_OnlySentencePunctuation ==
    StripCallDone =>
        /\ result.kind = "return"
        /\ Len(result.value) = Len(items)
        /\ \A i \in 1..Len(items) :
               result.value[i] =
                   Between(Between(UpToLast(items[i], {".", ",", ";", ":", "!", "?"} \cup Whitespace),
                                   Whitespace),
                           {"[", "]"} \cup Whitespace)

---------------------------------------------------------------------------
(* Calls of get_creators on bounded records.                               *)

\* at most this many semicolon-separated segments in a 245 $c
MaxSegments == 2

CreatorSegments ==
    {<<"d", "i", "r", "e", "c", "t", "o", "r", ",", " ", "J", "o", "h", "n", " ", "D", "i", "r", "e", "c", "t", "o", "r", " ", "a", "n", "d", " ", "J", "e", "s", "s", "i", "c", "a", " ", "C", "o", "-", "D", "i", "r", "e", "c", "t", "o", "r", " ">>,
     <<" ", "w", "r", "i", "t", "e", "r", ",", " ", "J", "a", "n", "e", " ", "W", "r", "i", "t", "e", "r", ".">>,
     <<"D", "i", "r", "e", "c", "t", "e", "d", " ", "B", "y", " ", "J", "o", "h", "n", " ", "D", "i", "r", "e", "c", "t", "o", "r">>,
     <<"a", " ", "f", "i", "l", "m", " ", "b", "y", " ", "U", "C", "L", "A">>,
     <<"s", "u", "p", "e", "r", "v", "i", "s", "e", "d", " ", "b", "y", " ">>,
     <<"J", "o", "h", "n", " ", "D", "i", "r", "e", "c", "t", "o", "r">>,
     <<" ", "S", "u", "p", "e", "r", "v", "i", "s", "e", "d", " ", "b", "y", " ", "J", "a", "n", "e", " ", "W", "r", "i", "t", "e", "r", ",", " ", "a", " ", "F", "i", "l", "m", " ", "B", "y", " ", "U", "C", "L", "A", " ", "a", "n", "d", " ", "J", "a", "n", "e", " ", "W", "r", "i", "t", "e", "r", " ">>,
     <<"w", "r", "i", "t", "t", "e", "n", " ", "b", "y", " ", "J", "a", "n", "e", " ", "W", "r", "i", "t", "e", "r", ",", " ", "d", "i", "r", "e", "c", "t", "e", "d", " ", "b", "y", " ", "J", "o", "h", "n", " ", "D", "i", "r", "e", "c", "t", "o", "r">>,
     <<"D", "i", "r", "e", "c", "t", "o", "r", "s", ":", " ", "J", "o", "h", "n", " ", "D", "i", "r", "e", "c", "t", "o", "r", ",", " ", "J", "o", "h", "n", " ", "D", "i", "r", "e", "c", "t", "o", "r">>}

\* a 245 $c of these segments, a semicolon between them
RECURSIVE Semicolons(_)
Semicolons(segments) ==
    IF segments = <<>> THEN <<>>
    ELSE IF Len(segments) = 1 THEN Head(segments)
    ELSE Head(segments) \o <<";">> \o Semicolons(Tail(segments))

StatementsOfResponsibility ==
    {Semicolons(segments) : segments \in SeqsUpTo(CreatorSegments, MaxSegments)}

CreatorRecords ==
    {<<Field001>>,
     <<Field001, DataField("245", "0", "0", <<Subfield("a", <<"M", "a", "i", "n">>)>>)>>}
        \cup {<<Field001, DataField("245", "0", "0",
                                    <<Subfield("a", <<"M", "a", "i", "n">>), Subfield("c", c)>>)>> :
                 c \in StatementsOfResponsibility}

InitCreators ==
    /\ op = "get_creators"
    /\ bib_record \in CreatorRecords
    /\ is_series = FALSE
    /\ date_string = <<>>
    /\ NoMamsArguments
    /\ NoUtilsArguments
    /\ NoClientCall
    /\ OneCall
    /\ pc = "ready"
    /\ result = NoResult

\* get_creators(bib_record, model)
GetCreators ==
    /\ op = "get_creators"
    /\ pc = "ready"
    /\ result' = Return(get_creators(bib_record))
    /\ locals' = [model_calls |-> ModelCalls(_get_creator_info_from_bib(bib_record))]
    /\ pc' = "done"
    /\ UNCHANGED <<args, invocations>>

NextCreators == GetCreators

SpecCreators == InitCreators /\ [][NextCreators]_vars

---------------------------------------------------------------------------
(* Claims on get_creators.                                                 *)

CreatorsCallDone == op = "get_creators" /\ pc = "done"

\* the phrases of the claim, in its order
ClaimedPhrases ==
    <<<<"d", "i", "r", "e", "c", "t", "e", "d", " ", "b", "y">>,
      <<"d", "i", "r", "e", "c", "t", "o", "r">>,
      <<"a", " ", "f", "i", "l", "m", " ", "b", "y">>,
      <<"s", "u", "p", "e", "r", "v", "i", "s", "e", "d", " ", "b", "y">>>>

\* the phrases a segment contains, whatever the case of its letters
PhrasesIn(segment) ==
    {k \in 1..Len(ClaimedPhrases) : Occurrences(Lower(segment), ClaimedPhrases[k]) # {}}

\* the text of a segment after the first place of its matched phrase
TextAfterPhrase(segment) ==
    LET phrase == ClaimedPhrases[Minimum(PhrasesIn(segment))]
        place == Minimum(Occurrences(Lower(segment), phrase))
    IN  SubSeq(segment, place + Len(phrase) + 1, Len(segment))

\* the names of the PERSON entities the recognizer returns for a text
PersonNames(text) ==
    LET persons == SelectSeq(Entities(Strip(text)), LAMBDA ent : ent.label_ = "PERSON")
    IN  [i \in 1..Len(persons) |-> persons[i].text]

\* the names expected of a list of segments
RECURSIVE NamesOfSegments(_)
NamesOfSegments(segments) ==
    IF segments = <<>> THEN <<>>
    ELSE (IF PhrasesIn(Head(segments)) # {}
          THEN PersonNames(TextAfterPhrase(Head(segments)))
          ELSE <<>>) \o NamesOfSegments(Tail(segments))

\* the first 245 $c of a record, as a list of one or none
StatementOfResponsibility(rec) ==
    LET with_c == {i \in 1..Len(rec) : rec[i].tag = "245" /\ HasSubfield(rec[i], "c")}
    IN  IF \E i \in 1..Len(rec) : rec[i].tag = "245" /\ i \in with_c
        THEN <<FirstSubfield(rec[Minimum(with_c)], "c")>>
        ELSE <<>>

\* C14: get_creators returns, in segment order, the PERSON entities the
\* recognizer returns for the text after the matched attribution phrase of
\* each semicolon-separated segment of the 245 $c that contains one; every
\* such person is there, duplicates too, a segment without a phrase gives no
\* name, and a record without $c gives the empty list and no error.
C14_CreatorsAfterPhrases ==
    CreatorsCallDone =>
        IF StatementOfResponsibility(bib_record) = <<>>
        THEN result = Return(<<>>)
        ELSE result = Return(NamesOfSegments(
                                 Split(StatementOfResponsibility(bib_record)[1], ";")))

\* C14 witness: the two directors of the first segment have been returned
\* and the writer of the second has not
C14_Witness ==
    /\ CreatorsCallDone
    /\ StatementOfResponsibility(bib_record) = <<<<"d", "i", "r", "e", "c", "t", "o", "r", ",", " ", "J", "o", "h", "n", " ", "D", "i", "r", "e", "c", "t", "o", "r", " ", "a", "n", "d", " ", "J", "e", "s", "s", "i", "c", "a", " ", "C", "o", "-", "D", "i", "r", "e", "c", "t", "o", "r", " ">> \o <<";">> \o <<" ", "w", "r", "i", "t", "e", "r", ",", " ", "J", "a", "n", "e", " ", "W", "r", "i", "t", "e", "r", ".">>>>
    /\ result = Return(<<<<"J", "o", "h", "n", " ", "D", "i", "r", "e", "c", "t", "o", "r">>, <<"J", "e", "s", "s", "i", "c", "a", " ", "C", "o", "-", "D", "i", "r", "e", "c", "t", "o", "r">>>>)

\* the texts expected to reach the recognizer for a list of segments: for a
\* segment with a phrase, the trimmed text after the first place of its
\* phrase of highest priority, unless that text is empty
RECURSIVE RecognizerTexts(_)
RecognizerTexts(segments) ==
    IF segments = <<>> THEN <<>>
    ELSE (IF PhrasesIn(Head(segments)) # {} /\ Strip(TextAfterPhrase(Head(segments))) # <<>>
          THEN <<Strip(TextAfterPhrase(Head(segments)))>>
          ELSE <<>>) \o RecognizerTexts(Tail(segments))

\* C26: within a segment the attribution phrase is chosen by the order
\* "directed by", "director", "a film by", "supervised by" and not by place in
\* the text: the recognizer is called, segment by segment, with the trimmed
\* text in its original case that follows the first occurrence of the
\* segment's phrase of highest priority, and is not called for a segment
\* without a phrase or with nothing after the phrase.
C26_PhraseByPriority ==
    CreatorsCallDone =>
        IF StatementOfResponsibility(bib_record) = <<>>
        THEN locals.model_calls = <<>>
        ELSE locals.model_calls =
                 RecognizerTexts(Split(StatementOfResponsibility(bib_record)[1], ";"))

\* C26 witness: for a segment with "Supervised by" before "a Film By" the
\* recognizer has been called once, with the text after "a Film By"
C26_Witness ==
    /\ CreatorsCallDone
    /\ StatementOfResponsibility(bib_record) =
           <<<<" ", "S", "u", "p", "e", "r", "v", "i", "s", "e", "d", " ", "b", "y", " ", "J", "a", "n", "e", " ", "W", "r", "i", "t", "e", "r", ",", " ", "a", " ", "F", "i", "l", "m", " ", "B", "y", " ", "U", "C", "L", "A", " ", "a", "n", "d", " ", "J", "a", "n", "e", " ", "W", "r", "i", "t", "e", "r", " ">>>>
    /\ locals.model_calls = <<<<"U", "C", "L", "A", " ", "a", "n", "d", " ", "J", "a", "n", "e", " ", "W", "r", "i", "t", "e", "r">>>>
    /\ result = Return(<<<<"J", "a", "n", "e", " ", "W", "r", "i", "t", "e", "r">>>>)

---------------------------------------------------------------------------
(* Calls of is_series_production_type on bounded Filemaker records.        *)

\* at most this many entries in a production type built from the entries
MaxEntries == 2

ProductionTypeEntries ==
    {<<" ", "N", "E", "W", "S", " ">>, <<"S", "H", "O", "R", "T">>, <<>>, <<"N", "E", "W", "S", "R", "E", "E", "L", "S">>, <<"m", "i", "n", "i", "-", "s", "e", "r", "i", "e", "s">>, <<"D", "r", "a", "m", "a">>,
     <<"T", "E", "L", "E", "V", "I", "S", "I", "O", "N">>, <<"M", "I", "N", "I", "A", "T", "U", "R", "E">>, <<"T", "e", "l", "e", "v", "i", "s", "i", "o", "n", " ", "S", "e", "r", "i", "e", "s">>, <<"S", "E", "R", "I", "A", "L", "S">>}

\* the entries with a carriage return between them
RECURSIVE CarriageReturns(_)
CarriageReturns(entries) ==
    IF entries = <<>> THEN <<>>
    ELSE IF Len(entries) = 1 THEN Head(entries)
    ELSE Head(entries) \o <<"\r">> \o CarriageReturns(Tail(entries))

Newsreels == <<"S", "I", "L", "E", "N", "T", " ", "F", "I", "L", "M", "\r", "E", "D", "U", "C", "A", "T", "I", "O", "N", "A", "L", "\r", "N", "E", "W", "S", "R", "E", "E", "L", "S", "\r", "C", "A", "R", "T", "O", "O", "N", "S">>

NewsShort == <<" ", "N", "E", "W", "S", " ", "\r", "S", "H", "O", "R", "T", "\r">>

ProductionTypes ==
    {CarriageReturns(entries) : entries \in SeqsUpTo(ProductionTypeEntries, MaxEntries)}
        \cup {Newsreels, NewsShort, <<"F", "O", "O", "\r", "B", "A", "R", "\r", "B", "A", "Z">>}

FilemakerRecords ==
    {[recordId |-> 0, modId |-> 0]}
        \cup {[recordId |-> 0, modId |-> 0, production_type |-> t] : t \in ProductionTypes}

InitFilemaker ==
    /\ op = "is_series_production_type"
    /\ bib_record = <<>>
    /\ is_series = FALSE
    /\ date_string = <<>>
    /\ filemaker_record \in FilemakerRecords
    /\ digital_data_record = <<>>
    /\ match_asset_uuid = None
    /\ locals = <<>>
    /\ NoUtilsArguments
    /\ NoClientCall
    /\ OneCall
    /\ pc = "ready"
    /\ result = NoResult

\* is_series_production_type(fm_record)
IsSeriesProductionType ==
    /\ op = "is_series_production_type"
    /\ pc = "ready"
    /\ result' = is_series_production_type(filemaker_record)
    /\ pc' = "done"
    /\ UNCHANGED <<args, invocations, locals>>

NextFilemaker == IsSeriesProductionType

SpecFilemaker == InitFilemaker /\ [][NextFilemaker]_vars

---------------------------------------------------------------------------
(* Claims on is_series_production_type.                                    *)

\* the call is done on a record that has a production type
ClassifiedProductionType ==
    /\ op = "is_series_production_type"
    /\ pc = "done"
    /\ "production_type" \in DOMAIN filemaker_record

\* the keywords of the claims
ClaimedKeywords ==
    {<<"t", "e", "l", "e", "v", "i", "s", "i", "o", "n", " ", "s", "e", "r", "i", "e", "s">>,
     <<"m", "i", "n", "i", "-", "s", "e", "r", "i", "e", "s">>,
     <<"s", "e", "r", "i", "a", "l", "s">>,
     <<"n", "e", "w", "s">>}

\* the production type lower-cased, split on carriage return, each segment
\* trimmed
TrimmedSegments(production_type) ==
    LET segments == Split(Lower(production_type), "\r")
    IN  {Strip(segments[i]) : i \in 1..Len(segments)}

\* C15 (as amended): is_series_production_type returns true if and only if,
\* after lower-casing the production type, splitting it on carriage return
\* and trimming each segment, some segment is one of the keywords
\* "television series", "mini-series", "serials", "news".
C15_SegmentIsKeyword ==
    ClassifiedProductionType =>
        result = Return(TrimmedSegments(filemaker_record.production_type)
                            \cap ClaimedKeywords # {})

\* C15 witness: "mini-series\rDrama" has been classified as a series
C15_Witness ==
    /\ ClassifiedProductionType
    /\ filemaker_record.production_type = <<"m", "i", "n", "i", "-", "s", "e", "r", "i", "e", "s", "\r", "D", "r", "a", "m", "a">>
    /\ result = Return(TRUE)

\* C15 (as claimed): is_series_production_type returns true if and only if
\* some trimmed segment of the lower-cased production type contains one of
\* the keywords as a substring.
C15_SegmentContainsKeyword ==
    ClassifiedProductionType =>
        result = Return(\E segment \in TrimmedSegments(filemaker_record.production_type) :
                            \E keyword \in ClaimedKeywords : HasSubstring(segment, keyword))

\* the entries of a production type as written, between carriage returns
WrittenEntries(production_type) ==
    LET entries == Split(production_type, "\r")
    IN  {entries[i] : i \in 1..Len(entries)}

\* an entry is a keyword but for the case of its letters and the spaces
\* around it
IsKeywordEntry(entry) ==
    \E keyword \in ClaimedKeywords :
        /\ Len(Between(entry, {" "})) = Len(keyword)
        /\ \A j \in 1..Len(keyword) : LowerChar(Between(entry, {" "})[j]) = keyword[j]

\* C16: a production type is classified as a series when one of its
\* carriage-return-separated entries is a keyword, ignoring case and
\* surrounding spaces, and is not when no entry is one, although an entry
\* holds a keyword inside a longer word or shares a word with one.
C16_EntryIsKeyword ==
    ClassifiedProductionType =>
        /\ (\E entry \in WrittenEntries(filemaker_record.production_type) : IsKeywordEntry(entry))
               => result = Return(TRUE)
        /\ (\A entry \in WrittenEntries(filemaker_record.production_type) : ~IsKeywordEntry(entry))
               => result = Return(FALSE)

\* C16 witness: a production type with NEWSREELS among its entries, and no
\* keyword, has been classified as no series
C16_Witness ==
    /\ ClassifiedProductionType
    /\ filemaker_record.production_type = Newsreels
    /\ result = Return(FALSE)

---------------------------------------------------------------------------
(* metadata/utils.py: _is_inventory_number_match                           *)

\* every inventory number starts with the empty prefix
inv_no_prefixes_with_empty ==
    <<<<>>, <<"D", "V", "D">>, <<"H", "F", "A">>, <<"V", "A">>, <<"V", "D">>,
      <<"X", "F", "E">>, <<"X", "F", "F">>, <<"X", "V", "E">>, <<"Z", "V", "B">>>>

inv_no_prefixes ==
    <<<<"D", "V", "D">>, <<"H", "F", "A">>, <<"V", "A">>, <<"V", "D">>,
      <<"X", "F", "E">>, <<"X", "F", "F">>, <<"X", "V", "E">>, <<"Z", "V", "B">>>>

call_no_suffixes == <<<<" ", "M">>, <<" ", "R">>, <<" ", "T">>>>

\* str.startswith
StartsWith(s, prefix) == Len(prefix) <= Len(s) /\ SubSeq(s, 1, Len(prefix)) = prefix

\* the inner loop over the suffixes left to try
RECURSIVE MatchesWithSuffix(_, _, _)
MatchesWithSuffix(inv_no, call_no, suffixes) ==
    IF suffixes = <<>> THEN FALSE
    ELSE IF inv_no \o Head(suffixes) = call_no THEN TRUE
    ELSE MatchesWithSuffix(inv_no, call_no, Tail(suffixes))

\* the outer loop over the prefixes left to try
RECURSIVE MatchesWithPrefix(_, _, _)
MatchesWithPrefix(inv_no, call_no, prefixes) ==
    IF prefixes = <<>> THEN FALSE
    ELSE IF /\ StartsWith(inv_no, Head(prefixes))
            /\ MatchesWithSuffix(inv_no, call_no, call_no_suffixes)
         THEN TRUE
         ELSE MatchesWithPrefix(inv_no, call_no, Tail(prefixes))

_is_inventory_number_match(inv_no, call_no) ==
    IF inv_no = call_no THEN TRUE
    ELSE MatchesWithPrefix(inv_no, call_no, inv_no_prefixes)

---------------------------------------------------------------------------
(* Calls of _is_inventory_number_match on bounded pairs.                   *)

InventoryNumbers ==
    {<<>>, <<"D", "V", "D", "1", "2", "3">>, <<"V", "A", "4", "5", "6">>, <<"X", "F", "E", "7", "8", "9">>, <<"A", "B", "C">>, <<"D", "V">>, <<"M", "1", "2", "3">>, <<"V", "D">>, <<"d", "v", "d", "1", "2", "3">>, <<"A", "D", "V", "D", "1">>, <<"Z", "V", "B", " ", "1">>}

CallNumberEndings ==
    {<<>>, <<" ", "M">>, <<" ", "R">>, <<" ", "T">>, <<" ", "X">>, <<" ", "t">>, <<"T">>,
     <<" ", "T", " ">>, <<" ", "T", " ", "T">>}

CallNumbers ==
    {inv \o ending : inv \in InventoryNumbers, ending \in CallNumberEndings}
        \cup {<<"D", "E", "F">>}

InitMatch ==
    /\ op = "_is_inventory_number_match"
    /\ bib_record = <<>>
    /\ is_series = FALSE
    /\ date_string = <<>>
    /\ NoMamsArguments
    /\ items = <<>>
    /\ records = <<>>
    /\ inventory_number \in InventoryNumbers
    /\ call_number \in CallNumbers
    /\ NoClientCall
    /\ OneCall
    /\ pc = "ready"
    /\ result = NoResult

\* _is_inventory_number_match(inventory_number, call_number)
IsInventoryNumberMatch ==
    /\ op = "_is_inventory_number_match"
    /\ pc = "ready"
    /\ result' = Return(_is_inventory_number_match(inventory_number, call_number))
    /\ pc' = "done"
    /\ UNCHANGED <<args, invocations, locals>>

NextMatch == IsInventoryNumberMatch

SpecMatch == InitMatch /\ [][NextMatch]_vars

---------------------------------------------------------------------------
(* Claims on _is_inventory_number_match.                                   *)

MatchCallDone == op = "_is_inventory_number_match" /\ pc = "done"

ListedPrefixes ==
    {<<"D", "V", "D">>, <<"H", "F", "A">>, <<"V", "A">>, <<"V", "D">>,
     <<"X", "F", "E">>, <<"X", "F", "F">>, <<"X", "V", "E">>, <<"Z", "V", "B">>}

ListedSuffixes == {<<" ", "M">>, <<" ", "R">>, <<" ", "T">>}

\* the matching rule: equal, or a listed prefix and a listed suffix added
MatchingRule(inv, call) ==
    \/ inv = call
    \/ /\ \E prefix \in ListedPrefixes :
              /\ Len(inv) >= Len(prefix)
              /\ \A i \in 1..Len(prefix) : inv[i] = prefix[i]
       /\ \E suffix \in ListedSuffixes : call = inv \o suffix

\* C17: _is_inventory_number_match(inv, call) is true if and only if inv is
\* call, or inv starts with one of DVD, HFA, VA, VD, XFE, XFF, XVE, ZVB and
\* call is inv with " M", " R" or " T" added; an inventory number without a
\* listed prefix never matches a call number that differs from it by a
\* suffix only.
C17_InventoryNumberMatch ==
    MatchCallDone =>
        /\ result = Return(MatchingRule(inventory_number, call_number))
        /\ (/\ \A prefix \in ListedPrefixes : ~StartsWith(inventory_number, prefix)
            /\ call_number # inventory_number) => result = Return(FALSE)

\* C17 witness: "DVD123" has been matched with "DVD123 T"
C17_Witness ==
    /\ MatchCallDone
    /\ inventory_number = <<"D", "V", "D", "1", "2", "3">>
    /\ call_number = <<"D", "V", "D", "1", "2", "3">> \o <<" ", "T">>
    /\ result = Return(TRUE)

---------------------------------------------------------------------------
(* metadata/utils.py: filter_by_inventory_number_and_library               *)

\* list[0]: the first element, or IndexError for the empty list
FirstOf(list) ==
    IF list = <<>>
    THEN Raise("IndexError", "list index out of range", <<>>)
    ELSE Return(list[1])

ftva == <<"f", "t", "v", "a">>

\* the inner loop over the AVA fields left of a record: TRUE when one
\* matches (the record is appended and the loop is left), FALSE when none
\* does, or the exception of a subscript
RECURSIVE AnyHoldingMatches(_, _)
AnyHoldingMatches(fields_ava, inv_no) ==
    IF fields_ava = <<>> THEN Return(FALSE)
    ELSE LET library_code == FirstOf(get_subfields(Head(fields_ava), "b"))
             call_no == FirstOf(get_subfields(Head(fields_ava), "d"))
         IN  IF library_code.kind = "raise" THEN library_code
             ELSE IF call_no.kind = "raise" THEN call_no
             ELSE IF /\ Lower(library_code.value) = ftva
                     /\ _is_inventory_number_match(inv_no, call_no.value)
                  THEN Return(TRUE)
                  ELSE AnyHoldingMatches(Tail(fields_ava), inv_no)

\* the outer loop over the records left, with the records appended so far
RECURSIVE FilterLoop(_, _, _)
FilterLoop(record_list, inv_no, filtered_records) ==
    IF record_list = <<>> THEN Return(filtered_records)
    ELSE LET matches == AnyHoldingMatches(get_fields(Head(record_list), "AVA"), inv_no)
         IN  IF matches.kind = "raise" THEN matches
             ELSE FilterLoop(Tail(record_list), inv_no,
                             IF matches.value
                             THEN Append(filtered_records, Head(record_list))
                             ELSE filtered_records)

filter_by_inventory_number_and_library(record_list, inv_no) ==
    FilterLoop(record_list, inv_no, <<>>)

---------------------------------------------------------------------------
(* Calls of filter_by_inventory_number_and_library on bounded lists.       *)

\* at most this many AVA fields in a record
MaxHoldings == 2

\* at most this many records in the list
MaxRecords == 2

Holding(subfields) == DataField("AVA", " ", " ", subfields)

Holdings ==
    {Holding(<<Subfield("b", ftva), Subfield("d", <<"D", "V", "D", "1", " ", "T">>)>>),
     Holding(<<Subfield("b", <<"F", "T", "V", "A">>), Subfield("d", <<"D", "V", "D", "1">>)>>),
     Holding(<<Subfield("b", <<"a", "r", "t", "s">>), Subfield("d", <<"D", "V", "D", "1">>)>>),
     Holding(<<Subfield("b", ftva), Subfield("d", <<"X", "Y", "Z">>)>>),
     Holding(<<Subfield("d", <<"D", "V", "D", "1">>)>>),
     Holding(<<Subfield("b", ftva)>>)}

CatalogRecords == SeqsUpTo(Holdings, MaxHoldings)

InitFilter ==
    /\ op = "filter_by_inventory_number_and_library"
    /\ bib_record = <<>>
    /\ is_series = FALSE
    /\ date_string = <<>>
    /\ NoMamsArguments
    /\ items = <<>>
    /\ records \in SeqsUpTo(CatalogRecords, MaxRecords)
    /\ inventory_number \in {<<"D", "V", "D", "1">>, <<"X", "Y", "Z">>}
    /\ call_number = <<>>
    /\ NoClientCall
    /\ OneCall
    /\ pc = "ready"
    /\ result = NoResult

\* filter_by_inventory_number_and_library(records, inventory_number)
FilterByInventoryNumberAndLibrary ==
    /\ op = "filter_by_inventory_number_and_library"
    /\ pc = "ready"
    /\ result' = filter_by_inventory_number_and_library(records, inventory_number)
    /\ pc' = "done"
    /\ UNCHANGED <<args, invocations, locals>>

NextFilter == FilterByInventoryNumberAndLibrary

SpecFilter == InitFilter /\ [][NextFilter]_vars

---------------------------------------------------------------------------
(* Claims on filter_by_inventory_number_and_library.                       *)

FilterCallDone == op = "filter_by_inventory_number_and_library" /\ pc = "done"

\* a holding statement of the archive whose call number matches
IsMatchingHolding(field, inv) ==
    /\ field.tag = "AVA"
    /\ HasSubfield(field, "b")
    /\ HasSubfield(field, "d")
    /\ Lower(FirstSubfield(field, "b")) = <<"f", "t", "v", "a">>
    /\ MatchingRule(inv, FirstSubfield(field, "d"))

\* a record with at least one such holding statement
IsRetained(rec, inv) == \E i \in 1..Len(rec) : IsMatchingHolding(rec[i], inv)

\* C18 (as claimed): the filter returns exactly the input records with at
\* least one AVA whose $b is "ftva", whatever its case, and whose $d matches
\* the inventory number, in the input order and each once, also when only a
\* later AVA of a record matches.
C18_RetainedRecords ==
    FilterCallDone =>
        result = Return(SelectSeq(records, LAMBDA rec : IsRetained(rec, inventory_number)))

\* C19 (as claimed): the filter completes without an exception on every list
\* of records, also when an AVA lacks $b or $d, and such an AVA counts as
\* not matching.
C19_MissingSubfieldNeverRaises ==
    FilterCallDone =>
        /\ result.kind = "return"
        /\ \A i \in 1..Len(result.value) : IsRetained(result.value[i], inventory_number)

---------------------------------------------------------------------------
(* Calls of get_dcp_info and get_dpx_info on bounded records.              *)

\* the records with each of these keys absent, empty or filled
DigitalDataRecords ==
    {Update(Update(Update(file_type, file), folder), sub_folder) :
        file_type \in {EmptyDict, [file_type |-> DCP], [file_type |-> DPX]},
        file \in {EmptyDict, [file_name |-> <<>>], [file_name |-> <<"a", ".", "m", "o", "v">>]},
        folder \in {EmptyDict, [file_folder_name |-> <<>>], [file_folder_name |-> <<"f", "o", "l", "d", "e", "r">>]},
        sub_folder \in {EmptyDict, [sub_folder_name |-> <<>>], [sub_folder_name |-> <<"s", "u", "b">>]}}

InitDigitalData ==
    /\ op \in {"get_dcp_info", "get_dpx_info"}
    /\ bib_record = <<>>
    /\ is_series = FALSE
    /\ date_string = <<>>
    /\ filemaker_record = <<>>
    /\ digital_data_record \in DigitalDataRecords
    /\ match_asset_uuid = None
    /\ locals = <<>>
    /\ NoUtilsArguments
    /\ NoClientCall
    /\ OneCall
    /\ pc = "ready"
    /\ result = NoResult

\* get_dcp_info(dd_record)
GetDcpInfo ==
    /\ op = "get_dcp_info"
    /\ pc = "ready"
    /\ result' = Return(get_dcp_info(digital_data_record))
    /\ pc' = "done"
    /\ UNCHANGED <<args, invocations, locals>>

\* get_dpx_info(dd_record)
GetDpxInfo ==
    /\ op = "get_dpx_info"
    /\ pc = "ready"
    /\ result' = Return(get_dpx_info(digital_data_record))
    /\ pc' = "done"
    /\ UNCHANGED <<args, invocations, locals>>

NextDigitalData == GetDcpInfo \/ GetDpxInfo

SpecDigitalData == InitDigitalData /\ [][NextDigitalData]_vars

---------------------------------------------------------------------------
(* Claims on get_dcp_info and get_dpx_info.                                *)

\* the value of a key of the source record, "" when the key is missing
SourceValue(key) ==
    IF key \in DOMAIN digital_data_record THEN digital_data_record[key] ELSE <<>>

\* C20: get_dcp_info returns exactly file_name "", folder_name the source
\* file_folder_name and sub_folder_name the source sub_folder_name;
\* get_dpx_info returns exactly file_name "" and folder_name the source
\* file_folder_name, with no key sub_folder_name; whatever file_name and
\* sub_folder_name the source carries, and "" for a missing folder.
C20_DcpAndDpxInfo ==
    /\ (op = "get_dcp_info" /\ pc = "done") =>
           /\ result.kind = "return"
           /\ DOMAIN result.value = {"file_name", "folder_name", "sub_folder_name"}
           /\ result.value["file_name"] = <<>>
           /\ result.value["folder_name"] = SourceValue("file_folder_name")
           /\ result.value["sub_folder_name"] = SourceValue("sub_folder_name")
    /\ (op = "get_dpx_info" /\ pc = "done") =>
           /\ result.kind = "return"
           /\ DOMAIN result.value = {"file_name", "folder_name"}
           /\ result.value["file_name"] = <<>>
           /\ result.value["folder_name"] = SourceValue("file_folder_name")

\* C20 witness: get_dpx_info has been applied to a record with a file name,
\* a sub-folder and no folder, and returned the two keys, both empty
C20_Witness ==
    /\ op = "get_dpx_info"
    /\ pc = "done"
    /\ "file_name" \in DOMAIN digital_data_record
    /\ digital_data_record["file_name"] # <<>>
    /\ "sub_folder_name" \in DOMAIN digital_data_record
    /\ digital_data_record["sub_folder_name"] # <<>>
    /\ "file_folder_name" \notin DOMAIN digital_data_record
    /\ result = Return([file_name |-> <<>>, folder_name |-> <<>>])

---------------------------------------------------------------------------
(* Calls of get_language_name on bounded records.                          *)

\* 3-character texts found in an 008: codes of the table, and others
LanguageCodes ==
    {<<"f", "r", "e">>, <<"e", "n", "g">>, <<"B", "A", "D">>, <<"F", "R", "E">>, <<" ", " ", " ">>}

\* data of the given length, the code written from the 1-based position start,
\* cut where the data ends
Data008(length, code, start, fill) ==
    [i \in 1..length |->
        IF i >= start /\ i < start + 3 THEN code[i - start + 1] ELSE fill]

ControlFields008 ==
    {ControlField("008", Data008(length, code, start, fill)) :
        length \in {0, 16, 39, 40, 41}, code \in LanguageCodes,
        start \in {35, 36, 37}, fill \in {" ", "x"}}

LanguageRecords ==
    {<<Field001>>}
        \cup {<<Field001, f>> : f \in ControlFields008}
        \cup {<<Field001, f, Field008French>> : f \in ControlFields008}

InitLanguage ==
    /\ op = "get_language_name"
    /\ bib_record \in LanguageRecords
    /\ is_series = FALSE
    /\ date_string = <<>>
    /\ NoMamsArguments
    /\ NoUtilsArguments
    /\ NoClientCall
    /\ OneCall
    /\ pc = "ready"
    /\ result = NoResult

\* get_language_name(bib_record)
GetLanguageName ==
    /\ op = "get_language_name"
    /\ pc = "ready"
    /\ result' = Return(get_language_name(bib_record))
    /\ pc' = "done"
    /\ UNCHANGED <<args, invocations, locals>>

NextLanguage == GetLanguageName

SpecLanguage == InitLanguage /\ [][NextLanguage]_vars

---------------------------------------------------------------------------
(* Claims on get_language_name.                                            *)

LanguageCallDone == op = "get_language_name" /\ pc = "done"

\* the 008 control fields of the record, in record order
ControlFieldsOf008 == SelectSeq(bib_record, LAMBDA f : f.tag = "008")

\* the characters at the 0-based positions 35, 36 and 37 of a text
Positions35To37(data) == <<data[36], data[37], data[38]>>

\* C22: get_language_name returns the table name of the 3-character code at
\* 0-based positions 35-37 of the 008 when the 008 is exactly 40 characters
\* long and the code is in the language table, and returns "" without
\* raising when there is no 008, when the 008 is not 40 characters long, or
\* when the code is not in the table.
C22_LanguageName ==
    LanguageCallDone =>
        /\ result.kind = "return"
        /\ IF /\ ControlFieldsOf008 # <<>>
              /\ Len(ControlFieldsOf008[1].data) = 40
              /\ Positions35To37(ControlFieldsOf008[1].data) \in DOMAIN language_map
           THEN result.value = language_map[Positions35To37(ControlFieldsOf008[1].data)]
           ELSE result.value = <<>>

\* C22 witness: the test's 008, 40 spaces with fre at 35-37, has given French
C22_Witness ==
    /\ LanguageCallDone
    /\ Len(bib_record) = 2
    /\ bib_record[2] = Field008French
    /\ result = Return(<<"F", "r", "e", "n", "c", "h">>)

---------------------------------------------------------------------------
(* clients/digital_data_client.py                                          *)

\* DigitalDataClient(user, password, url): the object after __init__
DigitalDataClient(user, password, url) ==
    [_user |-> user, _password |-> password, _url |-> url]

\* str(n) of a natural number
RECURSIVE Str(_)
Str(n) ==
    IF n < 10 THEN <<<<"0", "1", "2", "3", "4", "5", "6", "7", "8", "9">>[n + 1]>>
    ELSE Str(n \div 10) \o Str(n % 10)

\* f"{self._url}/records/{record_id}"
RecordUrl(self, id) ==
    self._url \o <<"/", "r", "e", "c", "o", "r", "d", "s", "/">> \o Str(id)

\* response.raise_for_status(): HTTPError for a 4xx or 5xx status, else nothing
raise_for_status(resp) ==
    IF resp.status_code >= 400 /\ resp.status_code < 500
    THEN Raise("HTTPError", "Client Error", <<>>)
    ELSE IF resp.status_code >= 500 /\ resp.status_code < 600
    THEN Raise("HTTPError", "Server Error", <<>>)
    ELSE NoResult

\* _get_record from raise_for_status on
_get_record(resp) ==
    IF raise_for_status(resp).kind = "raise" THEN raise_for_status(resp)
    ELSE IF resp.status_code = 200 THEN Return(resp.json)
    ELSE Return(EmptyDict)

---------------------------------------------------------------------------
(* Calls of DigitalDataClient.get_record_by_id against a service that      *)
(* holds some records.  A request that gets no answer at all (no           *)
(* connection) is left out: every request is answered with a status.       *)

DefaultUrl ==
    <<"h", "t", "t", "p", "s", ":", "/", "/", "d", "i", "g", "i", "t", "a", "l", "-", "d", "a", "t", "a",
      ".", "c", "i", "n", "e", "m", "a", ".", "u", "c", "l", "a", ".", "e", "d", "u">>

Clients ==
    {DigitalDataClient(<<"u">>, <<"p">>, DefaultUrl),
     DigitalDataClient(<<"u">>, <<"p">>, <<"h", "t", "t", "p", ":", "/", "/", "t", "e", "s", "t">>)}

\* the record ids asked for; the service holds the records 1 and 12
RecordIds == {1, 12, 3}

ServiceRecord(id) == Put(AssetFields, "id", id)

IsHeld(id) == id \in {1, 12}

\* the statuses a service answers with
StatusCodes == {200, 201, 204, 304, 400, 401, 403, 404, 500, 503}

\* the answers to a request for the record: 200 with the record's fields only
\* for a record held, and any other status with a body that is not the record
Responses(id) ==
    (IF IsHeld(id) THEN {[status_code |-> 200, json |-> ServiceRecord(id)]} ELSE {})
        \cup {[status_code |-> code, json |-> [detail |-> <<"N", "o">>]] :
                 code \in (IF IsHeld(id) THEN StatusCodes \ {200, 404} ELSE StatusCodes \ {200})}

InitClient ==
    /\ op = "get_record_by_id"
    /\ client \in Clients
    /\ record_id \in RecordIds
    /\ bib_record = <<>>
    /\ is_series = FALSE
    /\ date_string = <<>>
    /\ NoMamsArguments
    /\ NoUtilsArguments
    /\ OneCall
    /\ pc = "ready"
    /\ result = NoResult

\* get_record_by_id up to the call of _get_record
GetRecordById ==
    /\ op = "get_record_by_id"
    /\ pc = "ready"
    /\ locals' = [url |-> RecordUrl(client, record_id)]
    /\ pc' = "called"
    /\ UNCHANGED <<args, invocations, result>>

\* response = requests.get(url, auth=(self._user, self._password))
RequestsGet ==
    /\ op = "get_record_by_id"
    /\ pc = "called"
    /\ \E answer \in Responses(record_id) : locals' = Put(locals, "response", answer)
    /\ pc' = "answered"
    /\ UNCHANGED <<args, invocations, result>>

\* the rest of _get_record, and the return of its value by get_record_by_id
GetRecord ==
    /\ op = "get_record_by_id"
    /\ pc = "answered"
    /\ result' = _get_record(locals.response)
    /\ pc' = "done"
    /\ UNCHANGED <<args, invocations, locals>>

NextClient == GetRecordById \/ RequestsGet \/ GetRecord

SpecClient == InitClient /\ [][NextClient]_vars

---------------------------------------------------------------------------
(* Claims on DigitalDataClient.get_record_by_id.                           *)

ClientCallDone == op = "get_record_by_id" /\ pc = "done"

\* C23 (as claimed): get_record_by_id returns the record's field map when the
\* service answers 200, and returns the empty map, and does not raise, when
\* the record is not found or the service answers with any other status.
C23_EmptyMapUnlessOk ==
    ClientCallDone =>
        /\ result.kind = "return"
        /\ IF locals.response.status_code = 200
           THEN result.value = locals.response.json
           ELSE DOMAIN result.value = {}

---------------------------------------------------------------------------
(* Calls of get_mams_metadata side by side, on different input triples,    *)
(* their statements interleaved in any order.  Every name a statement      *)
(* reads or writes is an argument or a local of its own call: neither      *)
(* mams_metadata.py nor the modules it calls keep a module-level variable. *)

\* the state a statement of get_mams_metadata leaves its call in
Statement(call) ==
    CASE call.pc = "ready" ->
             {[pc |-> "loaded", locals |-> call.locals, result |-> NoResult]}
      [] call.pc = "loaded" ->
             {Bound(call.locals, "is_series",
                    is_series_production_type(call.filemaker_record), "classified")}
      [] call.pc = "classified" ->
             {TitlesBound(call.locals, get_title_info(call.bib_record, call.locals.is_series))}
      [] call.pc = "titled" ->
             {Bound(call.locals, "date_info", get_date_info(call.bib_record, parsed), "dated") :
                 parsed \in DateutilOutcomes(Stripped(_get_date_from_bib(call.bib_record).date))}
      [] call.pc = "dated" ->
             {Bound(call.locals, "metadata",
                    BaseMetadata(call.bib_record, call.filemaker_record,
                                 call.digital_data_record,
                                 call.locals.titles, call.locals.date_info),
                    "assembled")}
      [] call.pc = "assembled" ->
             {Bound(call.locals, "metadata",
                    Return(WithMatchAsset(call.locals.metadata, call.match_asset_uuid)),
                    "matched")}
      [] call.pc = "matched" ->
             {[pc |-> "done",
               locals |-> Put(call.locals, "metadata",
                              WithFileTypeOverride(call.locals.metadata,
                                                   call.digital_data_record)),
               result |-> Return(WithFileTypeOverride(call.locals.metadata,
                                                      call.digital_data_record))]}

\* every call reads the digital data record of the first call, as if the
\* argument were kept in a variable of the module
OwnCall_SharedAsset(calls, i) ==
    [calls[i] EXCEPT !.digital_data_record = calls[1].digital_data_record]

\* the arguments and locals a statement of call i works on: its own
OwnCall(calls, i) == calls[i]

Workers == {1, 2}

ConcurrentBibRecords ==
    {<<Field001>>,
     <<Field001,
       DataField("245", "0", "0", <<Subfield("a", <<"M", "a", "i", "n", " ", "T", "i", "t", "l", "e", " ", "/">>)>>),
       DataField("260", " ", " ", DateSubfields(<<<<"[", "1", "9", "9", "9", "]", ".">>>>))>>,
     <<Field001,
       DataField("245", "0", "0", <<Subfield("a", <<"O", "t", "h", "e", "r">>), Subfield("n", <<"N", "o", ".", " ", "1">>)>>),
       Field008French>>}

ConcurrentFilemakerRecords ==
    {Put(InventoryFields, "production_type", <<>>),
     Put(InventoryFields, "production_type", <<"N", "E", "W", "S">>)}

ConcurrentDigitalDataRecords ==
    {AssetFields,
     Update(Update(AssetFields, FolderFields), [file_type |-> DCP])}

InputTriples ==
    [bib_record : ConcurrentBibRecords,
     filemaker_record : ConcurrentFilemakerRecords,
     digital_data_record : ConcurrentDigitalDataRecords,
     match_asset_uuid : {None, Given(<<"m", "-", "1">>)}]

\* a call of get_mams_metadata on the triple, before its first statement
Called(triple) ==
    [bib_record |-> triple.bib_record,
     filemaker_record |-> triple.filemaker_record,
     digital_data_record |-> triple.digital_data_record,
     match_asset_uuid |-> triple.match_asset_uuid,
     locals |-> <<>>, pc |-> "ready", result |-> NoResult]

InitConcurrent ==
    /\ op = "get_mams_metadata, side by side"
    /\ \E first \in InputTriples :
           \E second \in InputTriples \ {first} :
               invocations = [i \in Workers |-> IF i = 1 THEN Called(first) ELSE Called(second)]
    /\ bib_record = <<>>
    /\ is_series = FALSE
    /\ date_string = <<>>
    /\ NoMamsArguments
    /\ NoUtilsArguments
    /\ NoClientCall
    /\ pc = "ready"
    /\ result = NoResult

\* call i runs its next statement
MamsStatement(i) ==
    /\ op = "get_mams_metadata, side by side"
    /\ invocations[i].pc # "done"
    /\ \E next \in Statement(OwnCall(invocations, i)) :
           invocations' = [invocations EXCEPT ![i].pc = next.pc,
                                              ![i].locals = next.locals,
                                              ![i].result = next.result]
    /\ UNCHANGED <<args, locals, pc, result>>

NextConcurrent == \E i \in Workers : MamsStatement(i)

SpecConcurrent == InitConcurrent /\ [][NextConcurrent]_vars

---------------------------------------------------------------------------
(* Claims on calls of get_mams_metadata side by side.                      *)

\* the outcomes of get_mams_metadata on the triple when nothing else runs:
\* the statements of mams_metadata.py:45-88 one after the other
RunAlone(bib, fm_record, dd_record, match_asset) ==
    LET series == is_series_production_type(fm_record)
        titles == get_title_info(bib, series.value)
        dates == {get_date_info(bib, parsed) :
                     parsed \in DateutilOutcomes(Stripped(_get_date_from_bib(bib).date))}
        Composed(date_info) ==
            LET metadata == BaseMetadata(bib, fm_record, dd_record, titles.value, date_info.value)
            IN  IF date_info.kind = "raise" THEN date_info
                ELSE IF metadata.kind = "raise" THEN metadata
                ELSE Return(WithFileTypeOverride(WithMatchAsset(metadata.value, match_asset),
                                                 dd_record))
    IN  IF series.kind = "raise" THEN {series}
        ELSE IF titles.kind = "raise" THEN {titles}
        ELSE {Composed(date_info) : date_info \in dates}

\* C24: calls of get_mams_metadata on different input triples share no
\* state: however the statements of two calls are interleaved, each call
\* keeps its own arguments and ends with the outcome it has when it runs
\* alone.
C24_NoSharedState ==
    (op = "get_mams_metadata, side by side") =>
        \A i \in Workers :
            invocations[i].pc = "done" =>
                invocations[i].result \in RunAlone(invocations[i].bib_record,
                                                   invocations[i].filemaker_record,
                                                   invocations[i].digital_data_record,
                                                   invocations[i].match_asset_uuid)

\* C24 witness: the second call has returned its record while the first, on
\* another asset, stands between its statements with its titles composed,
\* and the record returned carries the second call's own file_name
C24_Witness ==
    /\ op = "get_mams_metadata, side by side"
    /\ invocations[1].pc = "titled"
    /\ invocations[1].digital_data_record # invocations[2].digital_data_record
    /\ invocations[2].pc = "done"
    /\ invocations[2].result.kind = "return"
    /\ invocations[2].result.value.file_name = get_file_name(invocations[2].digital_data_record)
    /\ invocations[2].result.value.file_name # <<>>

---------------------------------------------------------------------------
(* Claims on the arguments of get_mams_metadata.                           *)

\* a match-asset identifier, a non-empty string, was passed
IdentifierPassed == match_asset_uuid.given /\ match_asset_uuid.value # <<>>

\* the record without the key
Without(record, key) == [k \in DOMAIN record \ {key} |-> record[k]]

\* C27: the record get_mams_metadata returns has the key match_asset if and
\* only if a match-asset identifier was passed (None and the empty string are
\* none), its value is then that identifier, and the rest of the record is
\* the record a call on the same triple without an identifier returns.
C27_MatchAssetOnly ==
    MamsReturned =>
        /\ ("match_asset" \in DOMAIN result.value) <=> IdentifierPassed
        /\ IdentifierPassed => result.value.match_asset = match_asset_uuid.value
        /\ \E alone \in RunAlone(bib_record, filemaker_record, digital_data_record, None) :
               /\ alone.kind = "return"
               /\ "match_asset" \notin DOMAIN alone.value
               /\ Without(result.value, "match_asset") = alone.value

\* C27 witness: a call with the identifier m-1 on a DCP asset has returned a
\* record with match_asset m-1
C27_Witness ==
    /\ MamsReturned
    /\ match_asset_uuid = Given(<<"m", "-", "1">>)
    /\ AssetValue("file_type") = DCP
    /\ "match_asset" \in DOMAIN result.value
    /\ result.value.match_asset = <<"m", "-", "1">>

\* the inventory record has no production_type field, or an empty one
NoProductionType ==
    \/ "production_type" \notin DOMAIN filemaker_record
    \/ filemaker_record.production_type = <<>>

\* C28 (as claimed): the production-type field of an inventory record is
\* optional: on a record without the field, or with an empty one, the series
\* classification in get_mams_metadata raises nothing and gives false, and
\* the titles are composed as for a non-series.
C28_ProductionTypeOptional ==
    (op = "get_mams_metadata" /\ pc \notin {"ready", "loaded"} /\ NoProductionType) =>
        /\ "is_series" \in DOMAIN locals
        /\ locals.is_series = FALSE
        /\ ("titles" \in DOMAIN locals) =>
               Return(locals.titles) = get_title_info(bib_record, FALSE)

====
